---- MODULE Spec2Model ----
(***************************************************************************)
(* Verification model of the WLED effects integration                      *)
(* (custom_components/wled_context_effects, custom_components/wled_effects)*)
(*                                                                         *)
(* Components, each with its own specification over the shared variables:  *)
(*   SpecEngine  - WLEDEffectBase lifecycle: start / stop / run_once and   *)
(*                 the render-loop task, on one asyncio event loop         *)
(*   SpecCB      - CircuitBreaker.call with concurrent callers             *)
(*   SpecRL      - RateLimiter.acquire with concurrent callers             *)
(*   SpecRequest - WLEDJsonApiClient._request                              *)
(*   SpecLeds    - WLEDJsonApiClient.set_individual_leds                   *)
(*   SpecStep    - one render step of the per-LED effects                  *)
(*   SpecManager - WLEDConnectionManager                                   *)
(*   SpecFrame   - the render loop at command granularity                  *)
(*   SpecSetState - WLEDJsonApiClient.set_state                            *)
(*   SpecConfig  - the effect's LED range and segment configuration        *)
(*   SpecChase   - ChaseEffect.run_effect                                  *)
(*   SpecSparkle - SparkleEffect.run_effect                                *)
(*   SpecAlert   - AlertEffect's max-duration rule                         *)
(*   SpecMapper  - DataMapper.map_to_int                                   *)
(*   SpecReverse - the frame a render step transmits, apply_reverse        *)
(*   SpecSmooth  - WLEDEffectBase.map_value with the shared ValueSmoother  *)
(*   SpecTime    - TriggerManager time triggers                            *)
(*   SpecThreshold - TriggerManager threshold trigger                      *)
(*   SpecSegmentFade - SegmentFadeEffect's oscillating position            *)
(*                                                                         *)
(* Scheduling model: one event loop, cooperative coroutines.  An action is *)
(* the code a coroutine runs between two suspension points (awaits).       *)
(***************************************************************************)
EXTENDS Integers, Sequences, FiniteSets, TLC

\* ------------------------------------------------------------------------
\* Bounds of the model
\* ------------------------------------------------------------------------

\* render-loop tasks that start() may create in one behaviour
MaxTasks == 3

\* cap of the engine's success / failure counters
MaxCount == 2

\* call() invocations on the circuit breaker in one behaviour
MaxCBCalls == 5

\* last instant of the circuit breaker's clock
MaxCBTime == 5

\* acquire() invocations on the rate limiter in one behaviour
MaxRLCalls == 4

\* last instant of the rate limiter's clock
MaxRLTime == 4

\* largest max_retries argument of WLEDJsonApiClient._request tried
MaxRetries == 3

\* client objects the connection manager may construct in one behaviour
MaxClients == 3

\* commands the render loop may send in one behaviour
MaxCommands == 3

\* start() and stop() invocations on the render loop in one behaviour
MaxLifecycleCalls == 4

\* most LEDs of a frame of the reverse-direction model
MaxFrameLen == 3

\* most map_value calls made before the last render step of the smoothing model
MaxSmoothCalls == 3

\* last value of the wall clock of the time-trigger model, in half minutes
MaxClock == 6

\* most state-change events delivered to a threshold trigger
MaxEvents == 3

\* largest steps of a segment fade, and most auto-cycling render steps
MaxSteps == 3
MaxAdvances == 7

\* the values mapped by a data mapper are -10, -5, ..., 5 * MaxMapperValue - 10
MaxMapperValue == 24

\* last second of an alert effect's clock
MaxAlertTime == 5

\* most device commands of an alert effect after its off command
MaxAfterOff == 2

\* number of LEDs of a sparkle effect that adds no sparkles
SparkleLeds == 2

\* number of LEDs of a sparkle effect that adds sparkles
DenseLeds == 10

\* most render steps of a sparkle effect
MaxFadeSteps == 14

\* largest number of LEDs of a chase effect
MaxLeds == 4

\* capacity of the connection manager's cache (MAX_CACHED_CLIENTS is 20 in
\* wled_manager.py; the model runs the manager with a smaller cache)
MAX_CACHED_CLIENTS == 2

\* ------------------------------------------------------------------------
\* Values
\* ------------------------------------------------------------------------

\* Python's None
None == "None"

\* None in a field that otherwise holds a clock value
NoTime == -1

\* str(err) of the exceptions a render step may raise
Errors == {"err_a", "err_b"}

\* coroutines of the host that call start(), stop() and run_once()
\* (switch.async_turn_on / async_turn_off, the run-once button, unload)
Callers == {"c1", "c2"}

Tasks == 1..MaxTasks

\* the fixed delay of the loop's error branch: asyncio.sleep(1)
BackoffSeconds == 1

VARIABLES
    \* ---- WLEDEffectBase fields ----
    running,        \* self._running
    task,           \* self._task: 0 for None, else the task's id
    last_error,     \* self._last_error
    success_count,  \* self._success_count
    failure_count,  \* self._failure_count
    start_time,     \* self._start_time: None, or "set" for the datetime.now() of start()
    trigger_manager,\* self.trigger_manager is not None
    \* ---- the event loop's tasks running _run_loop ----
    taskState,      \* task id -> "none" | "created" | "render" | "backoff" | "done"
    cancelReq,      \* tasks on which cancel() was called and not yet delivered
    wake,           \* task id -> seconds left of its backoff sleep (0: not sleeping, or due)
    \* ---- callers of start / stop / run_once ----
    pc,             \* caller -> "idle" | "stop_await" | "stop_shutdown" | "once_render"
    awaiting,       \* caller -> the task its stop() awaits (0: none)
    ret,            \* outcome of the run_once() call that returned last: None | "ok" | "EffectExecutionError"
    cause,          \* __cause__ of the exception that call raised
    onceFrames,     \* caller -> run_effect invocations of its run_once() in progress
    \* ---- history ----
    sinceStop,      \* callers inside stop() with no start()/run_once() invoked since
    quiet,          \* a stop() returned and no start()/run_once() was invoked since it was invoked
    healed,         \* some loop task began a render step after a failed one
    \* ---- CircuitBreaker fields ----
    cb_state,            \* self._state: "closed" | "open" | "half_open"
    cb_failure_count,    \* self._failure_count
    cb_last_failure_time,\* self._last_failure_time: NoTime (None) or a clock value
    cb_success_count,    \* self._success_count
    \* ---- callers of CircuitBreaker.call ----
    cbPc,           \* caller -> "idle" | "in_func" (awaiting the wrapped function)
    cbRet,          \* caller -> outcome of its last call()
    cbNow,          \* time.time()
    \* ---- history ----
    cbCalls,        \* call() invocations so far
    cbInvoked,      \* invocations of the wrapped function so far
    cbStreak,       \* -1, or k: the breaker was CLOSED with failure_count 0 and the
                    \* k calls completed since then all had their function raise
    cbProbe,        \* the caller admitted by the last OPEN -> HALF_OPEN transition, while in flight
    \* ---- RateLimiter fields ----
    timestamps,     \* self._timestamps: deque(maxlen=max_commands), oldest first
    rlLock,         \* self._lock: None, or the caller holding it
    rlQueue,        \* self._lock's waiters, first come first
    \* ---- callers of RateLimiter.acquire ----
    rlPc,           \* caller -> "idle" | "lock_wait" | "sleep"
    rlTimeout,      \* caller -> the timeout argument of its latest acquire() (NoTime: None)
    rlStart,        \* caller -> start_time of its acquire()
    rlWake,         \* caller -> instant its asyncio.sleep(wait_time) is due
    rlRet,          \* caller -> outcome of its last acquire(): None | "ok" | "RateLimitError"
    rlNow,          \* time.time()
    \* ---- history ----
    rlCalled,       \* caller -> instant it called acquire()
    rlSaw,          \* caller -> the oldest timestamp it last found the full window to start at
    rlLog,          \* instants at which acquire() calls returned successfully, in order
    rlCalls,        \* acquire() invocations so far
    \* ---- WLEDJsonApiClient._request: one call at a time ----
    rqPc,           \* "idle" | "attempt" (HTTP request in flight) | "sleep" (backoff)
    max_retries,    \* the max_retries argument of the call
    attempt,        \* the loop variable of `for attempt in range(max_retries)`
    rqLastError,    \* the local last_error
    rqRet,          \* outcome of the last call: None | "ok" | "WLEDConnectionError"
    rqCause,        \* __cause__ of the raised WLEDConnectionError
    \* ---- history of the current / last call ----
    rqHistory,      \* what each HTTP attempt ended with, in order
    rqSleeps,       \* the durations of the asyncio.sleep calls, in order
    \* ---- WLEDJsonApiClient.set_individual_leds: one call at a time ----
    device_info,    \* self._device_info: None, or the cached "arch" of the device
    ledPc,          \* "idle" | "single_request" | "batch_request" | "batch_sleep"
    ledColors,      \* the colors argument
    ledStart,       \* the start_index argument
    ledMaxBuffer,   \* max_buffer as get_max_buffer_size() returned it
    ledI,           \* the loop variable i of _set_leds_batched
    ledSent,        \* the "i" arrays of the update_segment requests issued, in order
    ledRet,         \* outcome of the last call: None | "ok" | "WLEDConnectionError"
    \* ---- one render step (run_effect) of a per-LED effect ----
    fxKind,         \* the effect class: "chase" | "sparkle" | "alert" | "segment_fade"
    json_client,    \* whether the effect was given a JSON client
    fxPc,           \* "idle" | "override_sleep" | "off_cmd" | "per_led" | "fallback_cmd" | "segment_cmd" | "sleep"
    fxPerLed,       \* set_individual_leds transmissions begun in this step
    fxSegment,      \* send_wled_command calls begun in this step
    fxPerLedFailed, \* the per-LED transmission of this step raised
    fxCmdFailed,    \* a send_wled_command of this step raised
    fxRet,          \* outcome of the last step: None | "ok" | "EffectExecutionError"
    \* ---- WLEDConnectionManager ----
    clients,        \* self._clients: dict host -> WLED client, in insertion order
    json_clients,   \* self._json_clients: dict "host:80" -> JSON client, in insertion order
    cmNextId,       \* client objects constructed so far (they are numbered 1, 2, ...)
    cmCloses,       \* client -> number of close() calls begun on it (2: two or more)
    \* ---- callers of get_client / get_json_client ----
    cmPc,           \* caller -> "idle" | "evict_close" | "probe" | "timeout_close"
    cmKind,         \* caller -> "wled" (get_client) | "json" (get_json_client)
    cmHost,         \* caller -> the host argument
    cmClient,       \* caller -> the client it constructed (0: none)
    cmVictim,       \* caller -> oldest_host, the key it evicts (None: none)
    cmEvicted,      \* caller -> the client it closed for the eviction (0: none)
    \* ---- close_all ----
    caPc,           \* "idle" | "closing_wled" | "closing_json"
    caTodo,         \* the clients of the listed items still to close, current one first
    caRet,          \* outcome of the last close_all(): None | "ok" | "raised"
    \* ---- history ----
    cmUseOrder,     \* hosts in the order of their last get_client use, latest last
    caAtCall,       \* the clients cached when the running close_all() was called
    caAttempted,    \* the clients the running close_all() has called close() on
    caErrors,       \* number of close() calls that raised in the running close_all()
    \* ---- one render loop at command granularity (_run_loop, send_wled_command) ----
    frRunning,      \* self._running
    frPc,           \* the loop task: "none" | "created" | "command" (awaiting wled.segment) | "tick" (the step's sleep) | "backoff" | "done"
    frCancel,       \* stop() called cancel() on the task and the CancelledError is not yet delivered
    fr_command_count,   \* self._command_count
    fr_success_count,   \* self._success_count
    fr_failure_count,   \* self._failure_count
    fr_last_error,  \* self._last_error
    \* ---- history ----
    frInterrupted,  \* the suspension point at which the last cancellation hit the task (None: never cancelled)
    fr_start_time,  \* self._start_time: None, or "set" for the datetime.now() of start()
    frStopping,     \* a stop() is suspended in `await self._task`
    frCalls,        \* start() and stop() invocations so far
    frLastCall,     \* the method invoked last: None | "start" | "stop"
    \* ---- WLEDJsonApiClient.set_state: one call at a time ----
    ssPc,           \* "idle" | "request" (awaiting self._request)
    ssState,        \* the state argument of the current / last call, as the call left it
    ssRequests,     \* HTTP requests the current / last call issued
    ssRet,          \* outcome of the last call: None | "ok" | "ValueError" | "WLEDConnectionError"
    \* ---- the common configuration of an effect (WLEDEffectBase, EffectCoordinator) ----
    start_led,      \* self.start_led: NoLed (None) or an index
    stop_led,       \* self.stop_led: NoLed (None) or an index
    segment_id,     \* self.segment_id
    brightness,     \* self.brightness
    cfPc,           \* "none" | "new" (constructed) | "detecting" (setup awaits wled.update()) | "ready" (setup returned)
    cfSetupRet,     \* what setup() returned: None (not yet) | "True" | "False"
    cfDetected,     \* how the device query of _auto_detect_range ended (None: not queried)
    cfUpdateRet,    \* outcome of the last async_update_config: None | "ok" | "ValueError"
    \* ---- ChaseEffect: the animation state and one render step at a time ----
    position,       \* self.position
    direction,      \* self.direction: 1 forward, -1 backward
    bounce,         \* self.bounce
    chLeds,         \* (self.stop_led - self.start_led) + 1 as configured now
    chLedCount,     \* the local led_count of the current / last render step
    chPc,           \* "none" | "idle" | "sending" (awaiting the transmission) | "sleep" (awaiting asyncio.sleep)
    \* ---- SparkleEffect: the per-LED brightness array, one render step at a time ----
    led_brightness, \* self.led_brightness: a sequence of fractions << numerator, denominator >>
    fade_rate,      \* self.fade_rate, a fraction
    density,        \* self.density in percent
    spPc,           \* "none" | "idle" | "sending" (awaiting the transmission) | "sleep"
    spStart,        \* the brightness array the effect was observed with first
    spSteps,        \* render steps since then
    \* ---- AlertEffect: the max-duration rule over the effect's lifecycle ----
    alNow,          \* time.time(), in seconds
    max_duration,   \* self.max_duration, 0 = infinite
    alert_start_time, \* AlertEffect.start_time, NoTime before construction
    alRunning,      \* self._running
    alStarted,      \* the time of the last start(), NoTime if never started
    alPc,           \* "none" | "idle" | "off_cmd" | "frame" (awaiting the frame's transmission) | "sleep"
    alOffAt,        \* the time of the first max-duration off command since the last start(), or NoTime
    alAfterOff,     \* device commands begun since that off command
    \* ---- DataMapper: a mapper and its last map_to_int call ----
    input_min,      \* self.input_min
    input_max,      \* self.input_max
    output_min,     \* self.output_min
    output_max,     \* self.output_max
    clamp,          \* self.clamp
    curve,          \* self.curve
    dmPc,           \* "none" | "ready" (constructed) | "called" (map_to_int has returned)
    dmValue,        \* the argument of the last map_to_int call
    dmResult,       \* what it returned
    \* ---- reverse direction: the frame a render step generates and transmits ----
    rvKind,         \* the effect class
    reverse_direction, \* self.reverse_direction
    rvFrame,        \* the per-LED pattern the render step generated
    rvSent,         \* the frame it passed to set_individual_leds
    rvPc,           \* "none" | "ready" (constructed) | "sent"
    \* ---- map_value with smoothing: one smoother per effect instance ----
    smKind,         \* the effect class: "chase" | "sparkle"
    smControls,     \* self.state_controls
    transition_mode, \* self.transition_mode
    current_value,  \* self.value_smoother.current_value, NoValue for None
    smReturns,      \* the map_value calls of the last render step: value and range
    smCalls,        \* number of map_value calls made
    smPc,           \* "none" | "ready" (constructed)
    \* ---- TriggerManager: time triggers ----
    time_triggers,  \* the time_pattern of each time trigger of self._triggers, in order
    time_task,      \* self._time_task: the trigger whose check_time runs, NoTask for None
    ttWake,         \* the clock value at which the sleep of check_time ends
    ttNow,          \* the wall clock, in half minutes
    ttFired,        \* per trigger, the minutes at which its callbacks were invoked
    ttSetupAt,      \* the clock value at which setup() ran
    ttPc,           \* "none" | "added" (add_trigger done) | "setup" (setup() done)
    \* ---- TriggerManager: threshold trigger ----
    threshold,      \* config.threshold
    comparison,     \* config.comparison
    thSuspends,     \* the callback is a coroutine function that suspends
    last_triggered, \* the nonlocal last_triggered of state_changed
    thEvents,       \* the state-change events delivered so far, in order
    thPc,           \* per event, its handler: "firing" (awaiting the callback) | "done"
    thFires,        \* number of times the callbacks were invoked
    thSetup,        \* _setup_threshold_trigger has subscribed the handler
    \* ---- SegmentFadeEffect: the oscillating position ----
    steps,          \* self.steps
    current_step,   \* self.current_step
    sfDirection,    \* self.direction of the segment fade
    sfControls,     \* self.state_controls: "speed" | "position"
    sfEntity,       \* a state_entity is configured
    sfAdvances,     \* auto-cycling render steps made
    sfPc            \* "none" | "idle" | "sending" | "sleeping"

engineVars ==
    << running, task, last_error, success_count, failure_count, start_time,
       trigger_manager, taskState, cancelReq, wake, pc, awaiting, ret, cause,
       onceFrames, sinceStop, quiet, healed >>

cbVars ==
    << cb_state, cb_failure_count, cb_last_failure_time, cb_success_count,
       cbPc, cbRet, cbNow, cbCalls, cbInvoked, cbStreak, cbProbe >>

rlVars ==
    << timestamps, rlLock, rlQueue, rlPc, rlTimeout, rlStart, rlWake, rlRet,
       rlNow, rlCalled, rlSaw, rlLog, rlCalls >>

rqVars ==
    << rqPc, max_retries, attempt, rqLastError, rqRet, rqCause, rqHistory, rqSleeps >>

ledVars ==
    << device_info, ledPc, ledColors, ledStart, ledMaxBuffer, ledI, ledSent, ledRet >>

fxVars ==
    << fxKind, json_client, fxPc, fxPerLed, fxSegment, fxPerLedFailed, fxCmdFailed, fxRet >>

cmVars ==
    << clients, json_clients, cmNextId, cmCloses, cmPc, cmKind, cmHost, cmClient, cmVictim, cmEvicted, caPc, caTodo, caRet, cmUseOrder, caAtCall, caAttempted, caErrors >>

frVars ==
    << frRunning, frPc, frCancel, fr_command_count, fr_success_count, fr_failure_count, fr_last_error, frInterrupted,
       fr_start_time, frStopping, frCalls, frLastCall >>

\* what only start() and stop() change
frCallVars == << fr_start_time, frStopping, frCalls, frLastCall >>

ssVars ==
    << ssPc, ssState, ssRequests, ssRet >>

cfVars ==
    << start_led, stop_led, segment_id, brightness, cfPc, cfSetupRet, cfDetected, cfUpdateRet >>

chVars ==
    << position, direction, bounce, chLeds, chLedCount, chPc >>

spVars ==
    << led_brightness, fade_rate, density, spPc, spStart, spSteps >>

alVars ==
    << alNow, max_duration, alert_start_time, alRunning, alStarted, alPc, alOffAt, alAfterOff >>

dmVars ==
    << input_min, input_max, output_min, output_max, clamp, curve, dmPc, dmValue, dmResult >>

rvVars ==
    << rvKind, reverse_direction, rvFrame, rvSent, rvPc >>

smVars ==
    << smKind, smControls, transition_mode, current_value, smReturns, smCalls, smPc >>

ttVars ==
    << time_triggers, time_task, ttWake, ttNow, ttFired, ttSetupAt, ttPc >>

thVars ==
    << threshold, comparison, thSuspends, last_triggered, thEvents, thPc, thFires, thSetup >>

sfVars ==
    << steps, current_step, sfDirection, sfControls, sfEntity, sfAdvances, sfPc >>

vars == << engineVars, cbVars, rlVars, rqVars, ledVars, fxVars, cmVars, frVars, ssVars, cfVars, chVars, spVars, alVars, dmVars, rvVars, smVars, ttVars, thVars, sfVars >>

\* the state of the other components, which a step of one leaves alone
otherThanEngine == << cbVars, rlVars, rqVars, ledVars, fxVars, cmVars, frVars, ssVars, cfVars, chVars, spVars, alVars, dmVars, rvVars, smVars, ttVars, thVars, sfVars >>
otherThanCB == << engineVars, rlVars, rqVars, ledVars, fxVars, cmVars, frVars, ssVars, cfVars, chVars, spVars, alVars, dmVars, rvVars, smVars, ttVars, thVars, sfVars >>
otherThanRL == << engineVars, cbVars, rqVars, ledVars, fxVars, cmVars, frVars, ssVars, cfVars, chVars, spVars, alVars, dmVars, rvVars, smVars, ttVars, thVars, sfVars >>
otherThanRequest == << engineVars, cbVars, rlVars, ledVars, fxVars, cmVars, frVars, ssVars, cfVars, chVars, spVars, alVars, dmVars, rvVars, smVars, ttVars, thVars, sfVars >>
otherThanLeds == << engineVars, cbVars, rlVars, rqVars, fxVars, cmVars, frVars, ssVars, cfVars, chVars, spVars, alVars, dmVars, rvVars, smVars, ttVars, thVars, sfVars >>
otherThanStep == << engineVars, cbVars, rlVars, rqVars, ledVars, cmVars, frVars, ssVars, cfVars, chVars, spVars, alVars, dmVars, rvVars, smVars, ttVars, thVars, sfVars >>
otherThanManager == << engineVars, cbVars, rlVars, rqVars, ledVars, fxVars, frVars, ssVars, cfVars, chVars, spVars, alVars, dmVars, rvVars, smVars, ttVars, thVars, sfVars >>
otherThanFrame == << engineVars, cbVars, rlVars, rqVars, ledVars, fxVars, cmVars, ssVars, cfVars, chVars, spVars, alVars, dmVars, rvVars, smVars, ttVars, thVars, sfVars >>
otherThanSetState == << engineVars, cbVars, rlVars, rqVars, ledVars, fxVars, cmVars, frVars, cfVars, chVars, spVars, alVars, dmVars, rvVars, smVars, ttVars, thVars, sfVars >>
otherThanConfig == << engineVars, cbVars, rlVars, rqVars, ledVars, fxVars, cmVars, frVars, ssVars, chVars, spVars, alVars, dmVars, rvVars, smVars, ttVars, thVars, sfVars >>
otherThanChase == << engineVars, cbVars, rlVars, rqVars, ledVars, fxVars, cmVars, frVars, ssVars, cfVars, spVars, alVars, dmVars, rvVars, smVars, ttVars, thVars, sfVars >>
otherThanSparkle == << engineVars, cbVars, rlVars, rqVars, ledVars, fxVars, cmVars, frVars, ssVars, cfVars, chVars, alVars, dmVars, rvVars, smVars, ttVars, thVars, sfVars >>
otherThanAlert == << engineVars, cbVars, rlVars, rqVars, ledVars, fxVars, cmVars, frVars, ssVars, cfVars, chVars, spVars, dmVars, rvVars, smVars, ttVars, thVars, sfVars >>
otherThanMapper == << engineVars, cbVars, rlVars, rqVars, ledVars, fxVars, cmVars, frVars, ssVars, cfVars, chVars, spVars, alVars, rvVars, smVars, ttVars, thVars, sfVars >>
otherThanReverse == << engineVars, cbVars, rlVars, rqVars, ledVars, fxVars, cmVars, frVars, ssVars, cfVars, chVars, spVars, alVars, dmVars, smVars, ttVars, thVars, sfVars >>
otherThanSmooth == << engineVars, cbVars, rlVars, rqVars, ledVars, fxVars, cmVars, frVars, ssVars, cfVars, chVars, spVars, alVars, dmVars, rvVars, ttVars, thVars, sfVars >>
otherThanTime == << engineVars, cbVars, rlVars, rqVars, ledVars, fxVars, cmVars, frVars, ssVars, cfVars, chVars, spVars, alVars, dmVars, rvVars, smVars, thVars, sfVars >>
otherThanThreshold == << engineVars, cbVars, rlVars, rqVars, ledVars, fxVars, cmVars, frVars, ssVars, cfVars, chVars, spVars, alVars, dmVars, rvVars, smVars, ttVars, sfVars >>
otherThanSegmentFade == << engineVars, cbVars, rlVars, rqVars, ledVars, fxVars, cmVars, frVars, ssVars, cfVars, chVars, spVars, alVars, dmVars, rvVars, smVars, ttVars, thVars >>

\* ------------------------------------------------------------------------
\* WLEDEffectBase.__init__
\* ------------------------------------------------------------------------

InitEngine ==
    /\ running = FALSE
    /\ task = 0
    /\ last_error = None
    /\ success_count = 0
    /\ failure_count = 0
    /\ start_time = None
    /\ trigger_manager \in BOOLEAN
    /\ taskState = [t \in Tasks |-> "none"]
    /\ cancelReq = {}
    /\ wake = [t \in Tasks |-> 0]
    /\ pc = [c \in Callers |-> "idle"]
    /\ awaiting = [c \in Callers |-> 0]
    /\ ret = None
    /\ cause = None
    /\ onceFrames = [c \in Callers |-> 0]
    /\ sinceStop = {}
    /\ quiet = FALSE
    /\ healed = FALSE

\* a task that is scheduled or suspended, i.e. not finished
Alive(t) == taskState[t] \in {"created", "render", "backoff"}

\* hass.async_create_task: the next unused task id
NewTask == CHOOSE t \in Tasks : taskState[t] = "none" /\ \A u \in Tasks : u < t => taskState[u] # "none"

\* ------------------------------------------------------------------------
\* WLEDEffectBase.start
\* ------------------------------------------------------------------------

StartNoop(c) ==
    /\ pc[c] = "idle"
    /\ running
    /\ sinceStop' = {}
    /\ quiet' = FALSE
    /\ UNCHANGED << running, task, last_error, success_count, failure_count,
                    start_time, trigger_manager, taskState, cancelReq, wake, pc,
                    awaiting, ret, cause, onceFrames, healed,
                    otherThanEngine >>

StartLaunch(c) ==
    /\ pc[c] = "idle"
    /\ ~running
    /\ \E t \in Tasks : taskState[t] = "none"
    /\ running' = TRUE
    /\ start_time' = "set"
    /\ last_error' = None
    /\ task' = NewTask
    /\ taskState' = [taskState EXCEPT ![NewTask] = "created"]
    /\ sinceStop' = {}
    /\ quiet' = FALSE
    /\ UNCHANGED << success_count, failure_count, trigger_manager, cancelReq,
                    wake, pc, awaiting, ret, cause, onceFrames, healed,
                    otherThanEngine >>

Start(c) == StartNoop(c) \/ StartLaunch(c)

\* ------------------------------------------------------------------------
\* WLEDEffectBase.stop
\* ------------------------------------------------------------------------

\* stop() returns to caller c: the history of completed stop() calls
StopReturns(c, undisturbed) ==
    /\ sinceStop' = sinceStop \ {c}
    /\ quiet' = IF undisturbed THEN TRUE ELSE quiet

\* the code of stop() after `await self._task`, from `self._task = None` on:
\* with a trigger manager it suspends in trigger_manager.shutdown()
StopAfterTask(c, undisturbed) ==
    IF trigger_manager
    THEN /\ pc' = [pc EXCEPT ![c] = "stop_shutdown"]
         /\ sinceStop' = IF undisturbed THEN sinceStop \cup {c} ELSE sinceStop \ {c}
         /\ UNCHANGED << start_time, quiet >>
    ELSE /\ pc' = [pc EXCEPT ![c] = "idle"]
         /\ start_time' = None
         /\ StopReturns(c, undisturbed)

StopNoop(c) ==
    /\ pc[c] = "idle"
    /\ ~running
    /\ quiet' = TRUE
    /\ UNCHANGED << running, task, last_error, success_count, failure_count,
                    start_time, trigger_manager, taskState, cancelReq, wake, pc,
                    awaiting, ret, cause, onceFrames, sinceStop, healed,
                    otherThanEngine >>

\* stop() up to its first suspension: clear the flag, cancel the task, await it
StopBegin(c) ==
    /\ pc[c] = "idle"
    /\ running
    /\ running' = FALSE
    /\ IF task # 0 /\ Alive(task)
       THEN \* self._task.cancel(); await self._task suspends
            /\ cancelReq' = cancelReq \cup {task}
            /\ pc' = [pc EXCEPT ![c] = "stop_await"]
            /\ awaiting' = [awaiting EXCEPT ![c] = task]
            /\ sinceStop' = sinceStop \cup {c}
            /\ UNCHANGED << task, start_time, quiet >>
       ELSE \* no task, or a finished one: nothing to wait for
            /\ task' = 0
            /\ StopAfterTask(c, TRUE)
            /\ UNCHANGED << cancelReq, awaiting >>
    /\ UNCHANGED << last_error, success_count, failure_count, trigger_manager,
                    taskState, wake, ret, cause, onceFrames, healed,
                    otherThanEngine >>

\* the awaited task has finished: stop() resumes after `await self._task`
StopResume(c) ==
    /\ pc[c] = "stop_await"
    /\ taskState[awaiting[c]] = "done"
    /\ task' = 0
    /\ awaiting' = [awaiting EXCEPT ![c] = 0]
    /\ StopAfterTask(c, c \in sinceStop)
    /\ UNCHANGED << running, last_error, success_count, failure_count,
                    trigger_manager, taskState, cancelReq, wake, ret, cause,
                    onceFrames, healed,
                    otherThanEngine >>

\* trigger_manager.shutdown() has returned: the last line of stop()
StopShutdownDone(c) ==
    /\ pc[c] = "stop_shutdown"
    /\ pc' = [pc EXCEPT ![c] = "idle"]
    /\ start_time' = None
    /\ StopReturns(c, c \in sinceStop)
    /\ UNCHANGED << running, task, last_error, success_count, failure_count,
                    trigger_manager, taskState, cancelReq, wake, awaiting, ret,
                    cause, onceFrames, healed,
                    otherThanEngine >>

Stop(c) == StopNoop(c) \/ StopBegin(c) \/ StopResume(c) \/ StopShutdownDone(c)

\* ------------------------------------------------------------------------
\* WLEDEffectBase.run_once
\* ------------------------------------------------------------------------

\* run_once() enters run_effect(), which runs up to its first await
OnceBegin(c) ==
    /\ pc[c] = "idle"
    /\ pc' = [pc EXCEPT ![c] = "once_render"]
    /\ onceFrames' = [onceFrames EXCEPT ![c] = 1]
    /\ sinceStop' = {}
    /\ quiet' = FALSE
    /\ UNCHANGED << running, task, last_error, success_count, failure_count,
                    start_time, trigger_manager, taskState, cancelReq, wake,
                    awaiting, ret, cause, healed,
                    otherThanEngine >>

\* run_effect() returned
OnceOk(c) ==
    /\ pc[c] = "once_render"
    /\ pc' = [pc EXCEPT ![c] = "idle"]
    /\ onceFrames' = [onceFrames EXCEPT ![c] = 0]
    /\ ret' = "ok"
    /\ cause' = None
    /\ UNCHANGED << running, task, last_error, success_count, failure_count,
                    start_time, trigger_manager, taskState, cancelReq, wake,
                    awaiting, sinceStop, quiet, healed,
                    otherThanEngine >>

\* a run_once() that renders again after a failed render step
OnceFailRetries(c, err) ==
    /\ pc[c] = "once_render"
    /\ onceFrames[c] < 2
    /\ last_error' = err
    /\ onceFrames' = [onceFrames EXCEPT ![c] = onceFrames[c] + 1]
    /\ UNCHANGED << running, task, success_count, failure_count, start_time,
                    trigger_manager, taskState, cancelReq, wake, pc, awaiting,
                    ret, cause, sinceStop, quiet, healed,
                    otherThanEngine >>

\* run_effect() raised err: record it, raise EffectExecutionError from err
OnceFail(c, err) ==
    /\ pc[c] = "once_render"
    /\ pc' = [pc EXCEPT ![c] = "idle"]
    /\ last_error' = err
    /\ onceFrames' = [onceFrames EXCEPT ![c] = 0]
    /\ ret' = "EffectExecutionError"
    /\ cause' = err
    /\ UNCHANGED << running, task, success_count, failure_count, start_time,
                    trigger_manager, taskState, cancelReq, wake, awaiting,
                    sinceStop, quiet, healed,
                    otherThanEngine >>

RunOnce(c) == OnceBegin(c) \/ OnceOk(c) \/ (\E err \in Errors : OnceFail(c, err))

\* ------------------------------------------------------------------------
\* WLEDEffectBase._run_loop, one task per start()
\* ------------------------------------------------------------------------

\* `while self._running:` - enter the next render step or leave the loop
LoopHead == IF running THEN "render" ELSE "done"

\* the task's first step: the coroutine starts at the loop head
TaskStart(t) ==
    /\ taskState[t] = "created"
    /\ t \notin cancelReq
    /\ taskState' = [taskState EXCEPT ![t] = LoopHead]
    /\ UNCHANGED << running, task, last_error, success_count, failure_count,
                    start_time, trigger_manager, cancelReq, wake, pc, awaiting,
                    ret, cause, onceFrames, sinceStop, quiet, healed,
                    otherThanEngine >>

\* run_effect() returned: count the frame, back to the loop head
RenderOk(t) ==
    /\ taskState[t] = "render"
    /\ t \notin cancelReq
    /\ success_count < MaxCount
    /\ success_count' = success_count + 1
    /\ taskState' = [taskState EXCEPT ![t] = LoopHead]
    /\ UNCHANGED << running, task, last_error, failure_count, start_time,
                    trigger_manager, cancelReq, wake, pc, awaiting, ret, cause,
                    onceFrames, sinceStop, quiet, healed,
                    otherThanEngine >>

\* a loop whose error branch leaves the loop instead of sleeping
RenderFailEndsLoop(t, err) ==
    /\ taskState[t] = "render"
    /\ t \notin cancelReq
    /\ failure_count < MaxCount
    /\ last_error' = err
    /\ failure_count' = failure_count + 1
    /\ taskState' = [taskState EXCEPT ![t] = "done"]
    /\ UNCHANGED << running, task, success_count, start_time, trigger_manager,
                    cancelReq, wake, pc, awaiting, ret, cause, onceFrames,
                    sinceStop, quiet, healed,
                    otherThanEngine >>

\* run_effect() raised err (not a cancellation): record, count, sleep 1 s
RenderFail(t, err) ==
    /\ taskState[t] = "render"
    /\ t \notin cancelReq
    /\ failure_count < MaxCount
    /\ last_error' = err
    /\ failure_count' = failure_count + 1
    /\ taskState' = [taskState EXCEPT ![t] = "backoff"]
    /\ wake' = [wake EXCEPT ![t] = BackoffSeconds]
    /\ UNCHANGED << running, task, success_count, start_time, trigger_manager,
                    cancelReq, pc, awaiting, ret, cause, onceFrames, sinceStop,
                    quiet, healed,
                    otherThanEngine >>

\* asyncio.sleep(1) of the error branch is over: back to the loop head
BackoffDone(t) ==
    /\ taskState[t] = "backoff"
    /\ t \notin cancelReq
    /\ wake[t] = 0
    /\ taskState' = [taskState EXCEPT ![t] = LoopHead]
    /\ healed' = (healed \/ running)
    /\ UNCHANGED << running, task, last_error, success_count, failure_count,
                    start_time, trigger_manager, cancelReq, wake, pc, awaiting,
                    ret, cause, onceFrames, sinceStop, quiet,
                    otherThanEngine >>

\* CancelledError is thrown into the task at its suspension point: in a
\* render step the loop's handler breaks, anywhere else it propagates;
\* a task cancelled before its first step never runs its body
TaskCancelled(t) ==
    /\ t \in cancelReq
    /\ Alive(t)
    /\ taskState' = [taskState EXCEPT ![t] = "done"]
    /\ cancelReq' = cancelReq \ {t}
    /\ wake' = [wake EXCEPT ![t] = 0]
    /\ UNCHANGED << running, task, last_error, success_count, failure_count,
                    start_time, trigger_manager, pc, awaiting, ret, cause,
                    onceFrames, sinceStop, quiet, healed,
                    otherThanEngine >>

RunLoop(t) ==
    \/ TaskStart(t)
    \/ RenderOk(t)
    \/ (\E err \in Errors : RenderFail(t, err))
    \/ BackoffDone(t)
    \/ TaskCancelled(t)

\* one second passes for every task sleeping in asyncio.sleep
EngineTick ==
    /\ \E t \in Tasks : wake[t] > 0
    /\ wake' = [t \in Tasks |-> IF wake[t] > 0 THEN wake[t] - 1 ELSE 0]
    /\ UNCHANGED << running, task, last_error, success_count, failure_count,
                    start_time, trigger_manager, taskState, cancelReq, pc,
                    awaiting, ret, cause, onceFrames, sinceStop, quiet, healed,
                    otherThanEngine >>

NextEngine ==
    \/ \E c \in Callers : Start(c)
    \/ \E c \in Callers : Stop(c)
    \/ \E c \in Callers : RunOnce(c)
    \/ \E t \in Tasks : RunLoop(t)
    \/ EngineTick

\* ------------------------------------------------------------------------
\* CircuitBreaker (wled_effects/circuit_breaker.py)
\*
\* Every `async with self._lock` block of the class contains no await, so on
\* the single event loop the lock is never contended and each block runs
\* atomically; the wrapped function `await func(...)` runs outside the lock.
\* ------------------------------------------------------------------------

\* the instance under test: CircuitBreaker(failure_threshold=3, timeout=2)
failure_threshold == 3
timeout == 2

\* coroutines calling call() on the same breaker
CBCallers == {"k1", "k2"}

InitCB ==
    /\ cb_state = "closed"
    /\ cb_failure_count = 0
    /\ cb_last_failure_time = NoTime
    /\ cb_success_count = 0
    /\ cbPc = [k \in CBCallers |-> "idle"]
    /\ cbRet = [k \in CBCallers |-> None]
    /\ cbNow = 0
    /\ cbCalls = 0
    /\ cbInvoked = 0
    /\ cbStreak = 0
    /\ cbProbe = None

\* CircuitBreaker._should_attempt_reset
ShouldAttemptReset ==
    IF cb_last_failure_time = NoTime
    THEN FALSE
    ELSE cbNow - cb_last_failure_time >= timeout

\* call(): the OPEN check under the lock decides to reject
CallRejected(k) ==
    /\ cbPc[k] = "idle"
    /\ cbCalls < MaxCBCalls
    /\ cb_state = "open"
    /\ ~ShouldAttemptReset
    /\ cbRet' = [cbRet EXCEPT ![k] = "CircuitBreakerOpenError"]
    /\ cbCalls' = cbCalls + 1
    /\ cbStreak' = -1
    /\ UNCHANGED << cb_state, cb_failure_count, cb_last_failure_time,
                    cb_success_count, cbPc, cbNow, cbInvoked, cbProbe,
                    otherThanCB >>

\* call(): the check passes (moving OPEN to HALF_OPEN when the timeout has
\* elapsed) and the wrapped function is invoked and awaited
CallAdmitted(k) ==
    /\ cbPc[k] = "idle"
    /\ cbCalls < MaxCBCalls
    /\ cb_state = "open" => ShouldAttemptReset
    /\ cb_state' = IF cb_state = "open" THEN "half_open" ELSE cb_state
    /\ cbProbe' = IF cb_state = "open" THEN k ELSE cbProbe
    /\ cbPc' = [cbPc EXCEPT ![k] = "in_func"]
    /\ cbRet' = [cbRet EXCEPT ![k] = None]
    /\ cbCalls' = cbCalls + 1
    /\ cbInvoked' = cbInvoked + 1
    /\ UNCHANGED << cb_failure_count, cb_last_failure_time, cb_success_count,
                    cbNow, cbStreak,
                    otherThanCB >>

\* the wrapped function returned: _on_success, then call() returns the result
FuncOk(k) ==
    /\ cbPc[k] = "in_func"
    /\ cb_success_count' = cb_success_count + 1
    /\ cb_state' = IF cb_state = "half_open" THEN "closed" ELSE cb_state
    /\ cb_failure_count' = IF cb_state = "half_open" THEN 0 ELSE cb_failure_count
    /\ cbPc' = [cbPc EXCEPT ![k] = "idle"]
    /\ cbRet' = [cbRet EXCEPT ![k] = "ok"]
    /\ cbStreak' = IF cb_state' = "closed" /\ cb_failure_count' = 0 THEN 0 ELSE -1
    /\ cbProbe' = IF cbProbe = k THEN None ELSE cbProbe
    /\ UNCHANGED << cb_last_failure_time, cbNow, cbCalls, cbInvoked,
                    otherThanCB >>

\* an _on_failure that opens only above the threshold (> for >=)
FuncFailAboveThreshold(k) ==
    /\ cbPc[k] = "in_func"
    /\ cb_failure_count' = cb_failure_count + 1
    /\ cb_last_failure_time' = cbNow
    /\ cb_state' = IF cb_state = "half_open" THEN "open"
                   ELSE IF cb_failure_count' > failure_threshold THEN "open"
                   ELSE cb_state
    /\ cbPc' = [cbPc EXCEPT ![k] = "idle"]
    /\ cbRet' = [cbRet EXCEPT ![k] = "raised"]
    /\ cbStreak' = IF cbStreak >= 0 THEN cbStreak + 1 ELSE -1
    /\ cbProbe' = IF cbProbe = k THEN None ELSE cbProbe
    /\ UNCHANGED << cb_success_count, cbNow, cbCalls, cbInvoked,
                    otherThanCB >>

\* the wrapped function raised: _on_failure, then call() re-raises
FuncFail(k) ==
    /\ cbPc[k] = "in_func"
    /\ cb_failure_count' = cb_failure_count + 1
    /\ cb_last_failure_time' = cbNow
    /\ cb_state' = IF cb_state = "half_open" THEN "open"
                   ELSE IF cb_failure_count' >= failure_threshold THEN "open"
                   ELSE cb_state
    /\ cbPc' = [cbPc EXCEPT ![k] = "idle"]
    /\ cbRet' = [cbRet EXCEPT ![k] = "raised"]
    /\ cbStreak' = IF cbStreak >= 0 THEN cbStreak + 1 ELSE -1
    /\ cbProbe' = IF cbProbe = k THEN None ELSE cbProbe
    /\ UNCHANGED << cb_success_count, cbNow, cbCalls, cbInvoked,
                    otherThanCB >>

Call(k) == CallRejected(k) \/ CallAdmitted(k) \/ FuncOk(k) \/ FuncFail(k)

\* time passes
CBTick ==
    /\ cbNow < MaxCBTime
    /\ cbNow' = cbNow + 1
    /\ UNCHANGED << cb_state, cb_failure_count, cb_last_failure_time,
                    cb_success_count, cbPc, cbRet, cbCalls, cbInvoked, cbStreak,
                    cbProbe,
                    otherThanCB >>

NextCB ==
    \/ \E k \in CBCallers : Call(k)
    \/ CBTick

\* ------------------------------------------------------------------------
\* RateLimiter (wled_context_effects/rate_limiter.py)
\*
\* acquire() runs entirely inside `async with self._lock`, its sleep
\* included.  asyncio.Lock hands the lock over first come first served.
\* asyncio.sleep(d) resumes its caller once d seconds have passed, at that
\* instant or later.
\* ------------------------------------------------------------------------

\* the instance under test: RateLimiter(max_commands=2, window=2)
max_commands == 2
window == 2

\* coroutines calling acquire() on the same limiter
RLCallers == {"a1", "a2"}

\* the timeout arguments tried: None and 1 second
Timeouts == {NoTime, 1}

InitRL ==
    /\ timestamps = << >>
    /\ rlLock = None
    /\ rlQueue = << >>
    /\ rlPc = [c \in RLCallers |-> "idle"]
    /\ rlTimeout = [c \in RLCallers |-> NoTime]
    /\ rlStart = [c \in RLCallers |-> NoTime]
    /\ rlWake = [c \in RLCallers |-> NoTime]
    /\ rlRet = [c \in RLCallers |-> None]
    /\ rlNow = 0
    /\ rlCalled = [c \in RLCallers |-> NoTime]
    /\ rlSaw = [c \in RLCallers |-> NoTime]
    /\ rlLog = << >>
    /\ rlCalls = 0

Min(a, b) == IF a <= b THEN a ELSE b

\* `while self._timestamps and self._timestamps[0] < current_time - self.window:
\*      self._timestamps.popleft()`
RECURSIVE EvictEarly(_, _)
EvictEarly(ts, current_time) ==
    IF ts # << >> /\ ts[1] <= current_time - window
    THEN EvictEarly(Tail(ts), current_time)
    ELSE ts

RECURSIVE Evict(_, _)
Evict(ts, current_time) ==
    IF ts # << >> /\ ts[1] < current_time - window
    THEN Evict(Tail(ts), current_time)
    ELSE ts

\* `len(self._timestamps) < self.max_commands`
HasSlotOneMore(ts) == Len(ts) <= max_commands

HasSlot(ts) == Len(ts) < max_commands

\* deque(maxlen=max_commands).append: a full deque drops its oldest entry
DequeAppend(ts, x) ==
    IF Len(ts) < max_commands THEN Append(ts, x) ELSE Append(Tail(ts), x)

\* acquire() leaves through return or raise: `async with` releases the lock
Leave(c, outcome, tmo) ==
    /\ rlRet' = [rlRet EXCEPT ![c] = outcome]
    /\ rlPc' = [rlPc EXCEPT ![c] = "idle"]
    /\ rlLock' = None
    /\ rlStart' = [rlStart EXCEPT ![c] = NoTime]
    /\ rlWake' = [rlWake EXCEPT ![c] = NoTime]
    /\ rlTimeout' = [rlTimeout EXCEPT ![c] = tmo]
    /\ rlCalled' = [rlCalled EXCEPT ![c] = NoTime]

\* One pass of acquire()'s `while True:` body for caller c, which holds the
\* lock: it returns True, raises RateLimitError, or goes to sleep keeping the
\* lock.  started is the call's start_time, tmo its timeout, called the
\* instant the call was made, saw what its previous pass recorded.
\* (max_commands >= 1, so a window found full has an oldest timestamp.)
Iterate(c, started, tmo, called, saw) ==
    LET current_time == rlNow
        kept == Evict(timestamps, current_time)
    IN  IF HasSlot(kept)
        THEN /\ timestamps' = DequeAppend(kept, current_time)
             /\ rlLog' = Append(rlLog, current_time)
             /\ rlSaw' = [rlSaw EXCEPT ![c] = saw]
             /\ Leave(c, "ok", tmo)
        ELSE LET oldest == kept[1]
                 wait_time == (oldest + window) - current_time
                 elapsed == current_time - started
             IN  IF tmo # NoTime /\ elapsed >= tmo
                 THEN /\ timestamps' = kept
                      /\ rlSaw' = [rlSaw EXCEPT ![c] = saw]
                      /\ Leave(c, "RateLimitError", tmo)
                      /\ UNCHANGED rlLog
                 ELSE /\ timestamps' = kept
                      /\ rlPc' = [rlPc EXCEPT ![c] = "sleep"]
                      /\ rlLock' = c
                      /\ rlStart' = [rlStart EXCEPT ![c] = started]
                      /\ rlWake' = [rlWake EXCEPT ![c] = current_time +
                                        (IF tmo # NoTime
                                         THEN Min(wait_time, tmo - elapsed)
                                         ELSE wait_time)]
                      /\ rlTimeout' = [rlTimeout EXCEPT ![c] = tmo]
                      /\ rlCalled' = [rlCalled EXCEPT ![c] = called]
                      /\ rlSaw' = [rlSaw EXCEPT ![c] = oldest]
                      /\ UNCHANGED << rlLog, rlRet >>

\* acquire(timeout) is called and finds the lock free: the caller takes it,
\* reads started and runs the loop body up to its first suspension
AcquireEnter(c, tmo) ==
    /\ rlPc[c] = "idle"
    /\ rlCalls < MaxRLCalls
    /\ rlLock = None /\ rlQueue = << >>
    /\ rlCalls' = rlCalls + 1
    /\ Iterate(c, rlNow, tmo, rlNow, NoTime)
    /\ UNCHANGED << rlQueue, rlNow, otherThanRL >>

\* acquire(timeout) is called while the lock is held or others queue for it:
\* the caller queues at `async with self._lock`
AcquireQueue(c, tmo) ==
    /\ rlPc[c] = "idle"
    /\ rlCalls < MaxRLCalls
    /\ ~(rlLock = None /\ rlQueue = << >>)
    /\ rlCalls' = rlCalls + 1
    /\ rlQueue' = Append(rlQueue, c)
    /\ rlPc' = [rlPc EXCEPT ![c] = "lock_wait"]
    /\ rlTimeout' = [rlTimeout EXCEPT ![c] = tmo]
    /\ rlCalled' = [rlCalled EXCEPT ![c] = rlNow]
    /\ rlSaw' = [rlSaw EXCEPT ![c] = NoTime]
    /\ UNCHANGED << timestamps, rlLock, rlStart, rlWake, rlRet, rlNow, rlLog,
                    otherThanRL >>

\* the first queued caller gets the released lock, reads start_time (only
\* now) and runs the loop body
LockGranted(c) ==
    /\ rlPc[c] = "lock_wait"
    /\ rlLock = None
    /\ rlQueue # << >> /\ Head(rlQueue) = c
    /\ rlQueue' = Tail(rlQueue)
    /\ Iterate(c, rlNow, rlTimeout[c], rlCalled[c], NoTime)
    /\ UNCHANGED << rlNow, rlCalls, otherThanRL >>

\* asyncio.sleep(wait_time) is over: the caller runs the loop body again
Wake(c) ==
    /\ rlPc[c] = "sleep"
    /\ rlNow >= rlWake[c]
    /\ Iterate(c, rlStart[c], rlTimeout[c], rlCalled[c], rlSaw[c])
    /\ UNCHANGED << rlQueue, rlNow, rlCalls, otherThanRL >>

Acquire(c) ==
    \/ \E tmo \in Timeouts : AcquireEnter(c, tmo)
    \/ \E tmo \in Timeouts : AcquireQueue(c, tmo)
    \/ LockGranted(c)
    \/ Wake(c)

\* time passes
RLTick ==
    /\ rlNow < MaxRLTime
    /\ rlNow' = rlNow + 1
    /\ UNCHANGED << timestamps, rlLock, rlQueue, rlPc, rlTimeout, rlStart,
                    rlWake, rlRet, rlCalled, rlSaw, rlLog, rlCalls,
                    otherThanRL >>

NextRL ==
    \/ \E c \in RLCallers : Acquire(c)
    \/ RLTick


\* ------------------------------------------------------------------------
\* WLEDJsonApiClient._request (wled_context_effects/wled_json_api.py)
\* ------------------------------------------------------------------------

\* HTTP statuses a response may carry: success, client error, server error
Statuses == {200, 404, 503}

\* exceptions session.request may raise instead of answering
\* (aiohttp.ServerTimeoutError is an asyncio.TimeoutError and is caught as one)
Failures == {"TimeoutError", "ClientConnectionError", "ClientPayloadError"}

\* max_retries arguments tried
Retries == 0..MaxRetries

\* no exception
NoError == [kind |-> None, attempt |-> -1]

\* how an HTTP attempt ended: with a response, or with an exception
Answered(status) == [status |-> status, raised |-> None]
Raised(kind) == [status |-> 0, raised |-> kind]

\* the exception the attempt numbered a ended with
Error(kind, a) == [kind |-> kind, attempt |-> a]

RECURSIVE Pow2(_)
Pow2(n) == IF n = 0 THEN 1 ELSE 2 * Pow2(n - 1)

\* `2 * attempt` for `2 ** attempt`
BackoffLinear(a) == 2 * a

\* `2 ** attempt`
Backoff(a) == Pow2(a)

InitRequest ==
    /\ rqPc = "idle"
    /\ max_retries = 0
    /\ attempt = 0
    /\ rqLastError = NoError
    /\ rqRet = None
    /\ rqCause = NoError
    /\ rqHistory = << >>
    /\ rqSleeps = << >>

\* `await asyncio.sleep(2 ** attempt); continue`
SleepAndContinue ==
    /\ rqPc' = "sleep"
    /\ rqSleeps' = Append(rqSleeps, Backoff(attempt))
    /\ UNCHANGED << rqRet, rqCause, attempt >>

\* `raise WLEDConnectionError(...) from err`
RaiseFrom(err) ==
    /\ rqPc' = "idle"
    /\ rqRet' = "WLEDConnectionError"
    /\ rqCause' = err
    /\ UNCHANGED << rqSleeps, attempt >>

\* _request(..., max_retries=n) is called: the loop starts its first attempt,
\* or with no attempt to make falls through to the final raise
Request(n) ==
    /\ rqPc = "idle"
    /\ max_retries' = n
    /\ attempt' = 0
    /\ rqLastError' = NoError
    /\ rqHistory' = << >>
    /\ rqSleeps' = << >>
    /\ IF n > 0
       THEN rqPc' = "attempt" /\ rqRet' = None /\ rqCause' = NoError
       ELSE rqPc' = "idle" /\ rqRet' = "WLEDConnectionError" /\ rqCause' = NoError
    /\ UNCHANGED otherThanRequest

\* a response that retries every error status
AttemptResponseRetriesAll(status) ==
    /\ rqPc = "attempt"
    /\ rqHistory' = Append(rqHistory, Answered(status))
    /\ IF status >= 400 /\ attempt < max_retries - 1
       THEN SleepAndContinue /\ UNCHANGED rqLastError
       ELSE IF status >= 400
            THEN /\ rqLastError' = Error("ClientResponseError", attempt)
                 /\ RaiseFrom(Error("ClientResponseError", attempt))
            ELSE /\ rqPc' = "idle"
                 /\ rqRet' = "ok"
                 /\ UNCHANGED << rqLastError, rqCause, rqSleeps, attempt >>
    /\ UNCHANGED << max_retries, otherThanRequest >>

\* the device answers the attempt with a response of the given status:
\* 5xx before the last attempt sleeps and retries; otherwise
\* raise_for_status() raises ClientResponseError for status >= 400, which the
\* `except aiohttp.ClientError` branch does not retry; otherwise the body is
\* returned
AttemptResponse(status) ==
    /\ rqPc = "attempt"
    /\ rqHistory' = Append(rqHistory, Answered(status))
    /\ IF status >= 500 /\ attempt < max_retries - 1
       THEN SleepAndContinue /\ UNCHANGED rqLastError
       ELSE IF status >= 400
            THEN /\ rqLastError' = Error("ClientResponseError", attempt)
                 /\ RaiseFrom(Error("ClientResponseError", attempt))
            ELSE /\ rqPc' = "idle"
                 /\ rqRet' = "ok"
                 /\ UNCHANGED << rqLastError, rqCause, rqSleeps, attempt >>
    /\ UNCHANGED << max_retries, otherThanRequest >>

\* the attempt raises instead of answering: asyncio.TimeoutError and
\* aiohttp.ClientConnectionError are retried before the last attempt, any
\* other aiohttp.ClientError is not
AttemptRaises(kind) ==
    /\ rqPc = "attempt"
    /\ rqHistory' = Append(rqHistory, Raised(kind))
    /\ rqLastError' = Error(kind, attempt)
    /\ IF kind \in {"TimeoutError", "ClientConnectionError"}
          /\ attempt < max_retries - 1
       THEN SleepAndContinue
       ELSE RaiseFrom(Error(kind, attempt))
    /\ UNCHANGED << max_retries, otherThanRequest >>

\* the backoff sleep is over: the loop makes its next attempt
BackoffOver ==
    /\ rqPc = "sleep"
    /\ rqPc' = "attempt"
    /\ attempt' = attempt + 1
    /\ UNCHANGED << max_retries, rqLastError, rqRet, rqCause, rqHistory,
                    rqSleeps, otherThanRequest >>

NextRequest ==
    \/ \E n \in Retries : Request(n)
    \/ \E status \in Statuses : AttemptResponse(status)
    \/ \E kind \in Failures : AttemptRaises(kind)
    \/ BackoffOver

\* ------------------------------------------------------------------------
\* WLEDJsonApiClient.set_individual_leds / _set_leds_batched
\* (wled_context_effects/wled_json_api.py)
\* ------------------------------------------------------------------------

MAX_BUFFER_ESP8266 == 10000
MAX_BUFFER_ESP32 == 24000

\* RGB colors the input lists are made of
Palette == << << 255, 0, 170 >>, << 0, 0, 0 >>, << 18, 52, 86 >> >>

\* lengths of the colors argument tried: around the sizes at which each
\* buffer limit starts batching and at which a further batch is needed
Lengths == {0, 1, 831, 832, 1597, 1999}

\* start_index arguments tried
StartIndexes == {0, 7}

\* what get_info() yields: the "arch" of the device, or WLEDConnectionError
Archs == {"esp32", "esp8266"}

\* a list of n colors, neighbours differing
ColorsOf(n) == [i \in 1..n |-> Palette[(i % 3) + 1]]

\* led_data without a leading index
NoIndex == -1

\* f"{v:02X}": two hexadecimal digits
Hex2(v) == << v \div 16, v % 16 >>

\* _color_to_hex: "RRGGBB" as its six digits
ColorToHex(color) == Hex2(color[1]) \o Hex2(color[2]) \o Hex2(color[3])

\* the list led_data: an optional leading index followed by hex colors
LedData(index, hex) == [index |-> index, hex |-> hex]

\* len(led_data)
LedDataLen(d) == Len(d.hex) + (IF d.index = NoIndex THEN 0 ELSE 1)

\* _estimate_buffer_size: int((20 + len(led_data) * 10) * 1.2)
EstimateBufferSize(d) == (12 * (20 + LedDataLen(d) * 10)) \div 10

\* get_max_buffer_size given the arch get_info() yields ("error": it raised)
MaxBufferSize(arch) ==
    IF arch = "esp32" THEN MAX_BUFFER_ESP32 ELSE MAX_BUFFER_ESP8266

\* batch_size = max(1, int((max_buffer * 0.8 - 20) / bytes_per_led))
BatchSize(max_buffer) ==
    LET b == (((8 * max_buffer) \div 10) - 20) \div 10
    IN  IF b >= 1 THEN b ELSE 1

\* hex_colors[i:i + batch_size]
Slice(s, i, n) == SubSeq(s, i + 1, IF i + n <= Len(s) THEN i + n ELSE Len(s))

\* `batch_start = i` for `batch_start = start_index + i`
BatchStartFromZero(start_index, i) == i

\* batch_start = start_index + i
BatchStart(start_index, i) == start_index + i

\* the led_data of the batch that starts at offset i of hex_colors
BatchData(hex_colors, start_index, i, max_buffer) ==
    LedData(BatchStart(start_index, i), Slice(hex_colors, i, BatchSize(max_buffer)))

HexColors(colors) == [k \in 1..Len(colors) |-> ColorToHex(colors[k])]

InitLeds ==
    /\ device_info = None
    /\ ledPc = "idle"
    /\ ledColors = << >>
    /\ ledStart = 0
    /\ ledMaxBuffer = MAX_BUFFER_ESP8266
    /\ ledI = 0
    /\ ledSent = << >>
    /\ ledRet = None

\* set_individual_leds(segment_id, colors, start_index) up to its first
\* update_segment request; get_info() answers arch unless the arch is cached
SetLeds(n, start_index, arch) ==
    /\ ledPc = "idle"
    /\ device_info # None => arch = device_info
    /\ ledColors' = ColorsOf(n)
    /\ ledStart' = start_index
    /\ ledI' = 0
    /\ IF n = 0
       THEN \* `if not colors: return`
            /\ ledPc' = "idle"
            /\ ledRet' = "ok"
            /\ ledSent' = << >>
            /\ UNCHANGED << device_info, ledMaxBuffer >>
       ELSE LET hex_colors == HexColors(ColorsOf(n))
                led_data == LedData(IF start_index > 0 THEN start_index ELSE NoIndex,
                                    hex_colors)
                estimated_size == EstimateBufferSize(led_data)
                max_buffer == MaxBufferSize(arch)
            IN  /\ device_info' = IF arch \in Archs THEN arch ELSE device_info
                /\ ledMaxBuffer' = max_buffer
                /\ ledRet' = None
                /\ IF estimated_size > max_buffer
                   THEN /\ ledPc' = "batch_request"
                        /\ ledSent' = << BatchData(hex_colors, start_index, 0, max_buffer) >>
                   ELSE /\ ledPc' = "single_request"
                        /\ ledSent' = << led_data >>
    /\ UNCHANGED otherThanLeds

\* the update_segment request in flight succeeds: the single call returns;
\* the batch loop sleeps 50 ms when more LEDs remain and returns otherwise
LedRequestOk ==
    /\ ledPc \in {"single_request", "batch_request"}
    /\ IF ledPc = "batch_request" /\ ledI + BatchSize(ledMaxBuffer) < Len(ledColors)
       THEN ledPc' = "batch_sleep" /\ UNCHANGED ledRet
       ELSE ledPc' = "idle" /\ ledRet' = "ok"
    /\ UNCHANGED << device_info, ledColors, ledStart, ledMaxBuffer, ledI, ledSent,
                    otherThanLeds >>

\* the update_segment request in flight raises: the call raises with it
LedRequestFails ==
    /\ ledPc \in {"single_request", "batch_request"}
    /\ ledPc' = "idle"
    /\ ledRet' = "WLEDConnectionError"
    /\ UNCHANGED << device_info, ledColors, ledStart, ledMaxBuffer, ledI, ledSent,
                    otherThanLeds >>

\* the inter-batch sleep is over: the loop issues the next batch
NextBatch ==
    /\ ledPc = "batch_sleep"
    /\ ledI' = ledI + BatchSize(ledMaxBuffer)
    /\ ledSent' = Append(ledSent, BatchData(HexColors(ledColors), ledStart, ledI',
                                            ledMaxBuffer))
    /\ ledPc' = "batch_request"
    /\ UNCHANGED << device_info, ledColors, ledStart, ledMaxBuffer, ledRet,
                    otherThanLeds >>

NextLeds ==
    \/ \E n \in Lengths, start_index \in StartIndexes, arch \in Archs \cup {"error"} :
          SetLeds(n, start_index, arch)
    \/ LedRequestOk
    \/ LedRequestFails
    \/ NextBatch

\* ------------------------------------------------------------------------
\* run_effect of the effects with per-LED control
\* (effects/chase.py, sparkle.py, alert.py, segment_fade.py) and the
\* transmission methods of WLEDEffectBase they use
\* ------------------------------------------------------------------------

\* the effect classes whose render step tries per-LED control
PerLedEffects == {"chase", "sparkle", "alert", "segment_fade"}

InitStep ==
    /\ fxKind = "chase"
    /\ json_client = FALSE
    /\ fxPc = "idle"
    /\ fxPerLed = 0
    /\ fxSegment = 0
    /\ fxPerLedFailed = FALSE
    /\ fxCmdFailed = FALSE
    /\ fxRet = None

\* what check_manual_override() returns: its detection is not implemented
ManualOverride == {FALSE}

\* run_effect() of an effect of the given class begins and runs to its first
\* transmission: manual override skips the frame; an acknowledged or expired
\* alert switches the segment off; with a JSON client (and, for segment
\* fade, a non-empty pattern) the per-LED transmission starts; otherwise the
\* segment command does
StepBegin(kind, json, override, off, empty) ==
    /\ fxPc = "idle"
    /\ fxKind' = kind
    /\ json_client' = json
    /\ fxPerLedFailed' = FALSE
    /\ fxCmdFailed' = FALSE
    /\ fxRet' = None
    /\ IF override
       THEN fxPc' = "override_sleep" /\ fxPerLed' = 0 /\ fxSegment' = 0
       ELSE IF kind = "alert" /\ off
       THEN fxPc' = "off_cmd" /\ fxPerLed' = 0 /\ fxSegment' = 1
       ELSE IF json /\ ~(kind = "segment_fade" /\ empty)
       THEN fxPc' = "per_led" /\ fxPerLed' = 1 /\ fxSegment' = 0
       ELSE fxPc' = "segment_cmd" /\ fxPerLed' = 0 /\ fxSegment' = 1
    /\ UNCHANGED otherThanStep

\* set_individual_leds returned True: the step goes to its frame sleep
PerLedOk ==
    /\ fxPc = "per_led"
    /\ fxPc' = "sleep"
    /\ UNCHANGED << fxKind, json_client, fxPerLed, fxSegment, fxPerLedFailed,
                    fxCmdFailed, fxRet, otherThanStep >>

\* a step that lets the per-LED failure end the render step
PerLedRaisesNoFallback ==
    /\ fxPc = "per_led"
    /\ fxPerLedFailed' = TRUE
    /\ fxPc' = "idle"
    /\ fxRet' = "EffectExecutionError"
    /\ UNCHANGED << fxKind, json_client, fxPerLed, fxSegment, fxCmdFailed,
                    otherThanStep >>

\* the per-LED transmission raised, be it the EffectExecutionError
\* WLEDEffectBase.set_individual_leds wraps connection and data errors in or
\* any other Exception it lets through: the step's `except Exception` sends
\* the whole-segment color command
PerLedRaises ==
    /\ fxPc = "per_led"
    /\ fxPerLedFailed' = TRUE
    /\ fxSegment' = fxSegment + 1
    /\ fxPc' = "fallback_cmd"
    /\ UNCHANGED << fxKind, json_client, fxPerLed, fxCmdFailed, fxRet,
                    otherThanStep >>

\* send_wled_command returned True: the switched-off alert returns, any
\* other step goes to its frame sleep
SegmentCmdOk ==
    /\ fxPc \in {"off_cmd", "fallback_cmd", "segment_cmd"}
    /\ IF fxPc = "off_cmd"
       THEN fxPc' = "idle" /\ fxRet' = "ok"
       ELSE fxPc' = "sleep" /\ UNCHANGED fxRet
    /\ UNCHANGED << fxKind, json_client, fxPerLed, fxSegment, fxPerLedFailed,
                    fxCmdFailed, otherThanStep >>

\* wled.segment raised: send_wled_command raises EffectExecutionError, which
\* no handler of run_effect catches
SegmentCmdFails ==
    /\ fxPc \in {"off_cmd", "fallback_cmd", "segment_cmd"}
    /\ fxCmdFailed' = TRUE
    /\ fxPc' = "idle"
    /\ fxRet' = "EffectExecutionError"
    /\ UNCHANGED << fxKind, json_client, fxPerLed, fxSegment, fxPerLedFailed,
                    otherThanStep >>

\* the frame sleep is over: run_effect returns
StepSleepOver ==
    /\ fxPc \in {"override_sleep", "sleep"}
    /\ fxPc' = "idle"
    /\ fxRet' = "ok"
    /\ UNCHANGED << fxKind, json_client, fxPerLed, fxSegment, fxPerLedFailed,
                    fxCmdFailed, otherThanStep >>

NextStep ==
    \/ \E kind \in PerLedEffects, json, off, empty \in BOOLEAN,
          override \in ManualOverride :
          StepBegin(kind, json, override, off, empty)
    \/ PerLedOk
    \/ PerLedRaises
    \/ SegmentCmdOk
    \/ SegmentCmdFails
    \/ StepSleepOver

\* ------------------------------------------------------------------------
\* WLEDConnectionManager (wled_context_effects/wled_manager.py)
\*
\* The manager has no lock: its coroutines interleave at their awaits
\* (client.close(), the connectivity probe).
\* ------------------------------------------------------------------------

\* devices asked for
Hosts == {"h1", "h2", "h3"}

\* devices a JSON client is asked for
JsonHosts == {"h1"}

\* coroutines calling get_client / get_json_client
CMCallers == {"g1", "g2"}

ClientIds == 1..MaxClients

\* a dict as the sequence of its items in insertion order
Keys(d) == {d[i].host : i \in 1..Len(d)}
Values(d) == {d[i].id : i \in 1..Len(d)}
Item(h, id) == [host |-> h, id |-> id]

\* d[h]
Lookup(d, h) == d[CHOOSE i \in 1..Len(d) : d[i].host = h].id

\* del d[h] / d.pop(h)
Remove(d, h) == SelectSeq(d, LAMBDA e : e.host # h)

\* d[h] = id: a new key goes to the end, an existing key keeps its place
Put(d, h, id) ==
    IF h \in Keys(d)
    THEN [i \in 1..Len(d) |-> IF d[i].host = h THEN Item(h, id) ELSE d[i]]
    ELSE Append(d, Item(h, id))

\* the call of caller c is over (it returned a client or raised): its
\* locals are gone
Return(c) ==
    /\ cmPc' = [cmPc EXCEPT ![c] = "idle"]
    /\ cmKind' = [cmKind EXCEPT ![c] = "wled"]
    /\ cmHost' = [cmHost EXCEPT ![c] = None]
    /\ cmClient' = [cmClient EXCEPT ![c] = 0]
    /\ cmVictim' = [cmVictim EXCEPT ![c] = None]
    /\ cmEvicted' = [cmEvicted EXCEPT ![c] = 0]

\* the dict get_client (kind "wled") or get_json_client (kind "json") works on
Cache(kind) == IF kind = "wled" THEN clients ELSE json_clients

SetCache(kind, d) ==
    IF kind = "wled"
    THEN clients' = d /\ UNCHANGED json_clients
    ELSE json_clients' = d /\ UNCHANGED clients

\* client_count
client_count == Len(clients) + Len(json_clients)

\* the host's get_client use is the latest
Used(order, kind, h) ==
    IF kind = "wled" THEN Append(SelectSeq(order, LAMBDA x : x # h), h) ELSE order

InitManager ==
    /\ clients = << >>
    /\ json_clients = << >>
    /\ cmNextId = 0
    /\ cmCloses = [id \in ClientIds |-> 0]
    /\ cmPc = [c \in CMCallers |-> "idle"]
    /\ cmKind = [c \in CMCallers |-> "wled"]
    /\ cmHost = [c \in CMCallers |-> None]
    /\ cmClient = [c \in CMCallers |-> 0]
    /\ cmVictim = [c \in CMCallers |-> None]
    /\ cmEvicted = [c \in CMCallers |-> 0]
    /\ caPc = "idle"
    /\ caTodo = << >>
    /\ caRet = None
    /\ cmUseOrder = << >>
    /\ caAtCall = {}
    /\ caAttempted = {}
    /\ caErrors = 0

\* get_client(h) / get_json_client(h) finds the host cached: the item moves
\* to the end of the dict and its client is returned
GetCached(c, kind, h) ==
    /\ cmPc[c] = "idle"
    /\ h \in Keys(Cache(kind))
    /\ LET client == Lookup(Cache(kind), h)
       IN  /\ SetCache(kind, Append(Remove(Cache(kind), h), Item(h, client)))
    /\ Return(c)
    /\ cmUseOrder' = Used(cmUseOrder, kind, h)
    /\ UNCHANGED << cmNextId, cmCloses, caPc, caTodo, caRet, caAtCall,
                    caAttempted, caErrors, otherThanManager >>

\* get_client(h) / get_json_client(h) finds the host not cached: at capacity
\* with a client of its own kind cached, it starts closing the first item's
\* client (close_client / close_json_client); otherwise it constructs the
\* new client and starts the connectivity probe
GetUncached(c, kind, h) ==
    /\ cmPc[c] = "idle"
    /\ h \notin Keys(Cache(kind))
    /\ cmKind' = [cmKind EXCEPT ![c] = kind]
    /\ cmHost' = [cmHost EXCEPT ![c] = h]
    /\ IF client_count >= MAX_CACHED_CLIENTS /\ Cache(kind) # << >>
       THEN LET oldest == Head(Cache(kind))
            IN  /\ cmPc' = [cmPc EXCEPT ![c] = "evict_close"]
                /\ cmVictim' = [cmVictim EXCEPT ![c] = oldest.host]
                /\ cmEvicted' = [cmEvicted EXCEPT ![c] = oldest.id]
                /\ cmCloses' = [cmCloses EXCEPT ![oldest.id] = IF @ < 2 THEN @ + 1 ELSE 2]
                /\ cmClient' = [cmClient EXCEPT ![c] = 0]
                /\ UNCHANGED cmNextId
       ELSE /\ cmNextId < MaxClients
            /\ cmPc' = [cmPc EXCEPT ![c] = "probe"]
            /\ cmNextId' = cmNextId + 1
            /\ cmClient' = [cmClient EXCEPT ![c] = cmNextId + 1]
            /\ cmVictim' = [cmVictim EXCEPT ![c] = None]
            /\ cmEvicted' = [cmEvicted EXCEPT ![c] = 0]
            /\ UNCHANGED cmCloses
    /\ UNCHANGED << clients, json_clients, caPc, caTodo, caRet, cmUseOrder,
                    caAtCall, caAttempted, caErrors, otherThanManager >>

\* the evicted client's close() returned or raised (close_client logs the
\* error): `del` removes the key, raising KeyError out of get_client when the
\* key is gone; then the new client is constructed and probed
EvictCloseOver(c) ==
    /\ cmPc[c] = "evict_close"
    /\ cmNextId < MaxClients
    /\ IF cmVictim[c] \in Keys(Cache(cmKind[c]))
       THEN /\ SetCache(cmKind[c], Remove(Cache(cmKind[c]), cmVictim[c]))
            /\ cmPc' = [cmPc EXCEPT ![c] = "probe"]
            /\ cmNextId' = cmNextId + 1
            /\ cmClient' = [cmClient EXCEPT ![c] = cmNextId + 1]
            /\ UNCHANGED << cmKind, cmHost, cmVictim, cmEvicted >>
       ELSE /\ Return(c)
            /\ UNCHANGED << clients, json_clients, cmNextId >>
    /\ UNCHANGED << cmCloses, caPc,
                    caTodo, caRet, cmUseOrder, caAtCall, caAttempted, caErrors,
                    otherThanManager >>

\* the probe succeeded: the client is stored under its key and returned
ProbeOk(c) ==
    /\ cmPc[c] = "probe"
    /\ SetCache(cmKind[c], Put(Cache(cmKind[c]), cmHost[c], cmClient[c]))
    /\ Return(c)
    /\ cmUseOrder' = Used(cmUseOrder, cmKind[c], cmHost[c])
    /\ UNCHANGED << cmNextId, cmCloses, caPc, caTodo, caRet, caAtCall, caAttempted, caErrors,
                    otherThanManager >>

\* the probe timed out after 10 s: the new client's close() is awaited
ProbeTimeout(c) ==
    /\ cmPc[c] = "probe"
    /\ cmPc' = [cmPc EXCEPT ![c] = "timeout_close"]
    /\ cmCloses' = [cmCloses EXCEPT ![cmClient[c]] = IF @ < 2 THEN @ + 1 ELSE 2]
    /\ UNCHANGED << clients, json_clients, cmNextId, cmKind, cmHost, cmClient,
                    cmVictim, cmEvicted, caPc, caTodo, caRet,
                    cmUseOrder, caAtCall, caAttempted, caErrors,
                    otherThanManager >>

\* the probe raised, or the close() after the timeout is over: the call
\* raises; a client whose probe raised is neither closed nor cached
ProbeFailed(c) ==
    /\ cmPc[c] \in {"probe", "timeout_close"}
    /\ Return(c)
    /\ UNCHANGED << clients, json_clients, cmNextId, cmCloses, caPc, caTodo, caRet,
                    cmUseOrder, caAtCall, caAttempted, caErrors,
                    otherThanManager >>

\* the clients of a dict's items, in order
IdsOf(d) == [i \in 1..Len(d) |-> d[i].id]

\* close_all() goes on with the clients still to close in the current loop:
\* it awaits close() of the next one; after the WLED clients it lists the
\* JSON clients; after both loops it clears the two dicts and returns
Proceed(todo, phase, attempted) ==
    LET next == IF todo # << >> THEN todo
                ELSE IF phase = "closing_wled" THEN IdsOf(json_clients)
                ELSE << >>
        nextPhase == IF todo # << >> THEN phase ELSE "closing_json"
    IN  IF next # << >>
        THEN /\ caTodo' = next
             /\ caPc' = nextPhase
             /\ cmCloses' = [cmCloses EXCEPT ![Head(next)] = IF @ < 2 THEN @ + 1 ELSE 2]
             /\ caAttempted' = attempted \cup {Head(next)}
             /\ caRet' = None
             /\ UNCHANGED << clients, json_clients >>
        ELSE /\ caTodo' = << >>
             /\ caPc' = "idle"
             /\ caRet' = "ok"
             /\ clients' = << >>
             /\ json_clients' = << >>
             /\ caAttempted' = {}
             /\ UNCHANGED cmCloses

\* close_all() is called: it lists the WLED clients and starts closing
CloseAllBegin ==
    /\ caPc = "idle"
    /\ caAtCall' = Values(clients) \cup Values(json_clients)
    /\ caErrors' = 0
    /\ Proceed(IdsOf(clients), "closing_wled", {})
    /\ UNCHANGED << cmNextId, cmPc, cmKind, cmHost, cmClient, cmVictim, cmEvicted,
                    cmUseOrder, otherThanManager >>

\* the close() close_all awaits returned
CloseReturned ==
    /\ caPc # "idle"
    /\ Proceed(Tail(caTodo), caPc, caAttempted)
    /\ caAtCall' = IF caPc' = "idle" THEN {} ELSE caAtCall
    /\ caErrors' = IF caPc' = "idle" THEN 0 ELSE caErrors
    /\ UNCHANGED << cmNextId, cmPc, cmKind, cmHost, cmClient, cmVictim, cmEvicted,
                    cmUseOrder,
                    otherThanManager >>

\* the close() close_all awaits raised: the error is logged and the loop goes
\* on (WLEDJsonApiClient.close catches its own errors, a WLED client's
\* close() may raise)
CloseRaised ==
    /\ caPc = "closing_wled"
    /\ Proceed(Tail(caTodo), caPc, caAttempted)
    /\ caErrors' = IF caPc' = "idle" THEN 0 ELSE caErrors + 1
    /\ caAtCall' = IF caPc' = "idle" THEN {} ELSE caAtCall
    /\ UNCHANGED << cmNextId, cmPc, cmKind, cmHost, cmClient, cmVictim, cmEvicted,
                    cmUseOrder,
                    otherThanManager >>

NextManager ==
    \/ \E c \in CMCallers, h \in Hosts : GetCached(c, "wled", h)
    \/ \E c \in CMCallers, h \in JsonHosts : GetCached(c, "json", h)
    \/ \E c \in CMCallers, h \in Hosts : GetUncached(c, "wled", h)
    \/ \E c \in CMCallers, h \in JsonHosts : GetUncached(c, "json", h)
    \/ \E c \in CMCallers : EvictCloseOver(c)
    \/ \E c \in CMCallers : ProbeOk(c)
    \/ \E c \in CMCallers : ProbeTimeout(c)
    \/ \E c \in CMCallers : ProbeFailed(c)
    \/ CloseAllBegin
    \/ CloseReturned
    \/ CloseRaised

\* ------------------------------------------------------------------------
\* The render loop at command granularity: _run_loop running a render step
\* that sends one segment command with send_wled_command and then sleeps
\* for its tick, and stop() cancelling the task (effects/base.py)
\* ------------------------------------------------------------------------

InitFrame ==
    /\ frRunning = FALSE
    /\ frPc = "none"
    /\ frCancel = FALSE
    /\ fr_command_count = 0
    /\ fr_success_count = 0
    /\ fr_failure_count = 0
    /\ fr_last_error = None
    /\ frInterrupted = None
    /\ fr_start_time = None
    /\ frStopping = FALSE
    /\ frCalls = 0
    /\ frLastCall = None

\* `while self._running:` and, when the loop goes on, run_effect() up to the
\* await of send_wled_command, which counts the command before it sends it
FrameLoopHead ==
    IF frRunning
    THEN /\ fr_command_count < MaxCommands
         /\ frPc' = "command"
         /\ fr_command_count' = fr_command_count + 1
    ELSE /\ frPc' = "done"
         /\ UNCHANGED fr_command_count

\* start() or stop() is invoked
Invoked(method) ==
    /\ frCalls < MaxLifecycleCalls
    /\ frCalls' = frCalls + 1
    /\ frLastCall' = method

\* a start() on a running effect that starts it over
FrameStartNoopRestarts ==
    /\ frRunning
    /\ Invoked("start")
    /\ fr_start_time' = "set"
    /\ fr_last_error' = None
    /\ frPc' = "created"
    /\ UNCHANGED << frRunning, frCancel, fr_command_count, fr_success_count,
                    fr_failure_count, frInterrupted, frStopping,
                    otherThanFrame >>

\* start() on a running effect: logs a warning and returns
FrameStartNoop ==
    /\ frRunning
    /\ Invoked("start")
    /\ UNCHANGED << frRunning, frPc, frCancel, fr_command_count,
                    fr_success_count, fr_failure_count, fr_last_error,
                    frInterrupted, fr_start_time, frStopping,
                    otherThanFrame >>

\* start() on a stopped effect, called when no stop() is in progress: it
\* sets the flag and the start time, clears the last error and creates the
\* task
FrameStart ==
    /\ ~frRunning
    /\ ~frStopping
    /\ Invoked("start")
    /\ frRunning' = TRUE
    /\ fr_start_time' = "set"
    /\ fr_last_error' = None
    /\ frPc' = "created"
    /\ UNCHANGED << frCancel, fr_command_count, fr_success_count,
                    fr_failure_count, frInterrupted, frStopping,
                    otherThanFrame >>

\* the task's first step: the coroutine starts at the loop head
FrameTaskStart ==
    /\ frPc = "created"
    /\ ~frCancel
    /\ FrameLoopHead
    /\ UNCHANGED << frRunning, frCancel, fr_success_count, fr_failure_count,
                    fr_last_error, frInterrupted, frCallVars, otherThanFrame >>

\* wled.segment() returned: send_wled_command counts a success and returns,
\* run_effect goes to its tick sleep
FrameCommandOk ==
    /\ frPc = "command"
    /\ ~frCancel
    /\ fr_success_count' = fr_success_count + 1
    /\ frPc' = "tick"
    /\ UNCHANGED << frRunning, frCancel, fr_command_count, fr_failure_count,
                    fr_last_error, frInterrupted, frCallVars, otherThanFrame >>

\* wled.segment() raised err: send_wled_command records and counts it and
\* raises EffectExecutionError, which the loop's `except Exception` records
\* and counts again before its one-second sleep
FrameCommandFails(err) ==
    /\ frPc = "command"
    /\ ~frCancel
    /\ fr_last_error' = err
    /\ fr_failure_count' = fr_failure_count + 2
    /\ frPc' = "backoff"
    /\ UNCHANGED << frRunning, frCancel, fr_command_count, fr_success_count,
                    frInterrupted, frCallVars, otherThanFrame >>

\* the tick sleep is over: run_effect returns, the loop counts the step as
\* a success and goes to its head
FrameTickOver ==
    /\ frPc = "tick"
    /\ ~frCancel
    /\ fr_success_count' = fr_success_count + 1
    /\ FrameLoopHead
    /\ UNCHANGED << frRunning, frCancel, fr_failure_count, fr_last_error,
                    frInterrupted, frCallVars, otherThanFrame >>

\* the sleep of the error branch is over: back to the loop head
FrameBackoffOver ==
    /\ frPc = "backoff"
    /\ ~frCancel
    /\ FrameLoopHead
    /\ UNCHANGED << frRunning, frCancel, fr_success_count, fr_failure_count,
                    fr_last_error, frInterrupted, frCallVars, otherThanFrame >>

\* stop() on an effect that is not running: logs and returns
FrameStopNoop ==
    /\ ~frRunning
    /\ Invoked("stop")
    /\ UNCHANGED << frRunning, frPc, frCancel, fr_command_count,
                    fr_success_count, fr_failure_count, fr_last_error,
                    frInterrupted, fr_start_time, frStopping,
                    otherThanFrame >>

\* stop() on a running effect: clears the flag, cancels the task and awaits
\* it (a running effect's task has not finished)
FrameStop ==
    /\ frRunning
    /\ Invoked("stop")
    /\ frRunning' = FALSE
    /\ frCancel' = TRUE
    /\ frStopping' = TRUE
    /\ UNCHANGED << frPc, fr_command_count, fr_success_count, fr_failure_count,
                    fr_last_error, frInterrupted, fr_start_time,
                    otherThanFrame >>

\* the cancelled task has finished: stop() resumes and clears the start time
FrameStopResume ==
    /\ frStopping
    /\ frPc = "done"
    /\ frStopping' = FALSE
    /\ fr_start_time' = None
    /\ UNCHANGED << frRunning, frPc, frCancel, fr_command_count,
                    fr_success_count, fr_failure_count, fr_last_error,
                    frInterrupted, frCalls, frLastCall, otherThanFrame >>

\* a cancellation that the handlers of the command path count as a failure
FrameCancelledCounted ==
    /\ frCancel
    /\ frCancel' = FALSE
    /\ frInterrupted' = frPc
    /\ frPc' = "done"
    /\ fr_failure_count' = fr_failure_count + 1
    /\ UNCHANGED << frRunning, fr_command_count, fr_success_count,
                    fr_last_error, frCallVars, otherThanFrame >>

\* CancelledError is thrown into the task at its suspension point: it is no
\* Exception, so the handlers of send_wled_command and of the render step
\* let it through; the loop's `except asyncio.CancelledError` breaks (out of
\* the error branch's sleep it propagates) and the task ends
FrameCancelled ==
    /\ frCancel
    /\ frCancel' = FALSE
    /\ frInterrupted' = frPc
    /\ frPc' = "done"
    /\ UNCHANGED << frRunning, fr_command_count, fr_success_count,
                    fr_failure_count, fr_last_error, frCallVars, otherThanFrame >>

NextFrame ==
    \/ FrameStartNoop
    \/ FrameStart
    \/ FrameTaskStart
    \/ FrameCommandOk
    \/ \E err \in Errors : FrameCommandFails(err)
    \/ FrameTickOver
    \/ FrameBackoffOver
    \/ FrameStopNoop
    \/ FrameStop
    \/ FrameStopResume
    \/ FrameCancelled

\* ------------------------------------------------------------------------
\* WLEDJsonApiClient.set_state (wled_context_effects/wled_json_api.py)
\*
\* A Python value is modelled by its type and, for numbers, its value; a
\* key that is missing from a dict by the type "absent".
\* ------------------------------------------------------------------------

Py(type, val) == [type |-> type, val |-> val]

Absent == Py("absent", 0)

\* isinstance(v, int): bool is a subclass of int
IsInstanceInt(v) == v.type \in {"int", "bool"}

\* values tried for state["bri"]: 0, 128, 255, -1, 256, 128.0, "128", None, True
BriValues ==
    {Py("int", 0), Py("int", 128), Py("int", 255), Py("int", -1), Py("int", 256),
     Py("float", 128), Py("str", 128), Py("NoneType", 0), Py("bool", 1)}

\* an element of state["seg"]: a dict with or without an "id", or something else
Seg(type, id) == [type |-> type, id |-> id]

\* elements tried: {"id": 0}, {"id": "0"}, {"id": 1.0}, {} and the number 3
SegElements ==
    {Seg("dict", Py("int", 0)), Seg("dict", Py("str", 0)), Seg("dict", Py("float", 1)),
     Seg("dict", Absent), Seg("int", Absent)}

\* state["seg"]: a list of elements, or a value of another type
SegList(items) == [type |-> "list", items |-> items]

NoSeg == [type |-> "absent", items |-> << >>]

\* values tried for state["seg"]: lists of up to two elements, a dict, a string
SegValues ==
    {SegList(<< >>)}
        \cup {SegList(<< e >>) : e \in SegElements}
        \cup {SegList(<< Seg("dict", Py("int", 0)), e >>) : e \in SegElements}
        \cup {[type |-> "dict", items |-> << >>], [type |-> "str", items |-> << >>]}

State(bri, seg, v) == [bri |-> bri, seg |-> seg, v |-> v]

InitSetState ==
    /\ ssPc = "idle"
    /\ ssState = State(Absent, NoSeg, FALSE)
    /\ ssRequests = 0
    /\ ssRet = None

\* the check of one element of the segment list: the ValueError it raises
SegElementError(seg) ==
    IF seg.type # "dict" THEN "Each segment must be a dict"
    ELSE IF seg.id # Absent /\ ~IsInstanceInt(seg.id) THEN "Segment id must be int"
    ELSE None

\* a validation that does not look into the elements of the segment list
ValidationErrorShallow(state) ==
    IF state.bri # Absent /\ ~IsInstanceInt(state.bri) THEN "Invalid brightness value"
    ELSE IF state.bri # Absent /\ ~(0 <= state.bri.val /\ state.bri.val <= 255)
    THEN "Brightness out of range"
    ELSE IF state.seg # NoSeg /\ state.seg.type # "list" THEN "Segment data must be a list"
    ELSE None

\* the validation of set_state: the message of the ValueError raised, None
\* when the state passes
ValidationError(state) ==
    IF state.bri # Absent /\ ~IsInstanceInt(state.bri) THEN "Invalid brightness value"
    ELSE IF state.bri # Absent /\ ~(0 <= state.bri.val /\ state.bri.val <= 255)
    THEN "Brightness out of range"
    ELSE IF state.seg = NoSeg THEN None
    ELSE IF state.seg.type # "list" THEN "Segment data must be a list"
    ELSE LET bad == {i \in 1..Len(state.seg.items) :
                        SegElementError(state.seg.items[i]) # None}
         IN  IF bad = {} THEN None
             ELSE LET first == CHOOSE i \in bad : \A j \in bad : i <= j
                  IN  SegElementError(state.seg.items[first])

\* set_state(state, return_state) up to its first await: the validation
\* raises, or "v" is added on request and the POST is issued
SetState(bri, seg, return_state) ==
    /\ ssPc = "idle"
    /\ LET state == State(bri, seg, FALSE)
       IN  IF ValidationError(state) # None
           THEN /\ ssState' = state
                /\ ssRet' = "ValueError"
                /\ ssRequests' = 0
                /\ ssPc' = "idle"
           ELSE /\ ssState' = State(bri, seg, return_state)
                /\ ssRet' = None
                /\ ssRequests' = 1
                /\ ssPc' = "request"
    /\ UNCHANGED otherThanSetState

\* the POST was answered: set_state returns what _request returned
SetStateRequestOk ==
    /\ ssPc = "request"
    /\ ssPc' = "idle"
    /\ ssRet' = "ok"
    /\ UNCHANGED << ssState, ssRequests, otherThanSetState >>

\* _request raised after its retries
SetStateRequestFails ==
    /\ ssPc = "request"
    /\ ssPc' = "idle"
    /\ ssRet' = "WLEDConnectionError"
    /\ UNCHANGED << ssState, ssRequests, otherThanSetState >>

NextSetState ==
    \/ \E bri \in BriValues \cup {Absent}, seg \in SegValues \cup {NoSeg},
          return_state \in BOOLEAN : SetState(bri, seg, return_state)
    \/ SetStateRequestOk
    \/ SetStateRequestFails

\* ------------------------------------------------------------------------
\* The common configuration of an effect: WLEDEffectBase.__init__, setup,
\* _auto_detect_range (effects/base.py) and
\* EffectCoordinator.async_update_config (coordinator.py)
\* ------------------------------------------------------------------------

\* None in start_led / stop_led
NoLed == NoIndex

\* the stop index _auto_detect_range falls back to
FallbackStopLed == 59

\* a key that is missing from the config dict of async_update_config
NotGiven == -2

\* LED ranges the config flow produces: auto-detection (both absent), one
\* index given, or both given with start_led <= stop_led
ConfiguredRanges ==
    {<< NoLed, NoLed >>, << 10, NoLed >>, << NoLed, 29 >>, << 0, 29 >>, << 10, 29 >>}

\* the ways the device query of _auto_detect_range fails: it raises, returns
\* no device, a device without info or without LED info, or a count of
\* None or 0
FailedDetections ==
    {"raises", "no_device", "no_info", "no_leds", "count_none", "count_zero"}

\* LED counts a device reports
LedCounts == {1, 30, 144}

\* __init__ takes the values of the config entry, which the config flow has
\* validated
InitConfig ==
    /\ start_led = NoLed
    /\ stop_led = NoLed
    /\ segment_id = 0
    /\ brightness = 255
    /\ cfPc = "none"
    /\ cfSetupRet = None
    /\ cfDetected = None
    /\ cfUpdateRet = None

\* WLEDEffectBase.__init__ takes the LED range and the segment from the
\* configuration as they are
EffectConstructed(range, seg) ==
    /\ cfPc = "none"
    /\ start_led' = range[1]
    /\ stop_led' = range[2]
    /\ segment_id' = seg
    /\ cfPc' = "new"
    /\ UNCHANGED << brightness, cfSetupRet, cfDetected, cfUpdateRet, otherThanConfig >>

\* setup(): with an index missing it awaits the device query; otherwise it
\* returns True (the trigger manager of an effect holds no triggers, its
\* setup() is an empty loop)
SetupBegin ==
    /\ cfPc = "new"
    /\ IF start_led = NoLed \/ stop_led = NoLed
       THEN /\ cfPc' = "detecting"
            /\ UNCHANGED cfSetupRet
       ELSE /\ cfPc' = "ready"
            /\ cfSetupRet' = "True"
    /\ UNCHANGED << start_led, stop_led, segment_id, brightness, cfDetected,
                    cfUpdateRet, otherThanConfig >>

\* a setup() that gives up when the detection fails
DetectionFailedGivesUp(how) ==
    /\ cfPc = "detecting"
    /\ cfDetected' = how
    /\ cfPc' = "ready"
    /\ cfSetupRet' = "False"
    /\ UNCHANGED << start_led, stop_led, segment_id, brightness, cfUpdateRet,
                    otherThanConfig >>

\* the device query failed: _auto_detect_range sets the range 0..59 and
\* returns, setup() returns True
DetectionFailed(how) ==
    /\ cfPc = "detecting"
    /\ cfDetected' = how
    /\ start_led' = 0
    /\ stop_led' = FallbackStopLed
    /\ cfPc' = "ready"
    /\ cfSetupRet' = "True"
    /\ UNCHANGED << segment_id, brightness, cfUpdateRet, otherThanConfig >>

\* the device reported led_count > 0 LEDs: the range is 0..led_count-1
DetectionOk(led_count) ==
    /\ cfPc = "detecting"
    /\ cfDetected' = "count"
    /\ start_led' = 0
    /\ stop_led' = led_count - 1
    /\ cfPc' = "ready"
    /\ cfSetupRet' = "True"
    /\ UNCHANGED << segment_id, brightness, cfUpdateRet, otherThanConfig >>

\* the value a key of the config dict gives a field
Updated(field, given) == IF given = NotGiven THEN field ELSE given

\* async_update_config(config) with integer values: brightness and
\* segment_id are validated, then every given key is applied
UpdateConfig(bri, seg, start, stop) ==
    /\ cfPc = "ready"
    /\ IF \/ bri # NotGiven /\ ~(0 <= bri /\ bri <= 255)
          \/ seg # NotGiven /\ ~(0 <= seg /\ seg <= 31)
       THEN /\ cfUpdateRet' = "ValueError"
            /\ UNCHANGED << start_led, stop_led, segment_id, brightness >>
       ELSE /\ cfUpdateRet' = "ok"
            /\ brightness' = Updated(brightness, bri)
            /\ segment_id' = Updated(segment_id, seg)
            /\ start_led' = Updated(start_led, start)
            /\ stop_led' = Updated(stop_led, stop)
    /\ UNCHANGED << cfPc, cfSetupRet, cfDetected, otherThanConfig >>

NextConfig ==
    \/ \E range \in ConfiguredRanges, seg \in {0, 31} : EffectConstructed(range, seg)
    \/ SetupBegin
    \/ \E how \in FailedDetections : DetectionFailed(how)
    \/ \E led_count \in LedCounts : DetectionOk(led_count)
    \/ \E bri \in {NotGiven, 128, 256}, seg \in {NotGiven, 5, 32},
          start \in {NotGiven, 0, 40}, stop \in {NotGiven, 20, 59} :
          UpdateConfig(bri, seg, start, stop)

\* ------------------------------------------------------------------------
\* ChaseEffect.run_effect (effects/chase.py) with no state source that
\* controls the direction
\* ------------------------------------------------------------------------

\* numbers of LEDs a chase effect is configured with
ChaseLedCounts == 1..MaxLeds

InitChase ==
    /\ position = 0
    /\ direction = 1
    /\ bounce = TRUE
    /\ chLeds = 1
    /\ chLedCount = 1
    /\ chPc = "none"

\* ChaseEffect.__init__ and setup(): the animation starts at position 0
\* going forward; bounce and the LED range come from the configuration
ChaseConstructed(bouncing, n) ==
    /\ chPc = "none"
    /\ position' = 0
    /\ direction' = 1
    /\ bounce' = bouncing
    /\ chLeds' = n
    /\ chLedCount' = n
    /\ chPc' = "idle"
    /\ UNCHANGED otherThanChase

\* position and direction after `self.position += self.direction` and a
\* boundary handling that turns around without moving the position back
MovedUnclamped(pos, dir, n, bouncing) ==
    LET p == pos + dir
    IN  IF bouncing
        THEN IF p >= n - 1 THEN [position |-> p, direction |-> -1]
             ELSE IF p <= 0 THEN [position |-> p, direction |-> 1]
             ELSE [position |-> p, direction |-> dir]
        ELSE IF p >= n THEN [position |-> 0, direction |-> dir]
             ELSE IF p < 0 THEN [position |-> n - 1, direction |-> dir]
             ELSE [position |-> p, direction |-> dir]

\* position and direction after `self.position += self.direction` and the
\* boundary handling: bounce at the edges, or wrap around
Moved(pos, dir, n, bouncing) ==
    LET p == pos + dir
    IN  IF bouncing
        THEN IF p >= n - 1 THEN [position |-> n - 1, direction |-> -1]
             ELSE IF p <= 0 THEN [position |-> 0, direction |-> 1]
             ELSE [position |-> p, direction |-> dir]
        ELSE IF p >= n THEN [position |-> 0, direction |-> dir]
             ELSE IF p < 0 THEN [position |-> n - 1, direction |-> dir]
             ELSE [position |-> p, direction |-> dir]

\* run_effect() (check_manual_override() returns False in every case): it
\* computes led_count from the configured range, builds the colors and awaits their transmission
ChaseStepBegin ==
    /\ chPc = "idle"
    /\ chLedCount' = chLeds
    /\ chPc' = "sending"
    /\ UNCHANGED << position, direction, bounce, chLeds, otherThanChase >>

\* the transmission returned: the position moves, the boundaries are
\* handled, the step sleeps
ChaseSent ==
    /\ chPc = "sending"
    /\ position' = Moved(position, direction, chLedCount, bounce).position
    /\ direction' = Moved(position, direction, chLedCount, bounce).direction
    /\ chPc' = "sleep"
    /\ UNCHANGED << bounce, chLeds, chLedCount, otherThanChase >>

\* the transmission (the fallback command included) raised: the step ends
\* with the animation state as it was
ChaseSendFails ==
    /\ chPc = "sending"
    /\ chPc' = "idle"
    /\ UNCHANGED << position, direction, bounce, chLeds, chLedCount, otherThanChase >>

\* the sleep is over: run_effect returns
ChaseSleepOver ==
    /\ chPc = "sleep"
    /\ chPc' = "idle"
    /\ UNCHANGED << position, direction, bounce, chLeds, chLedCount, otherThanChase >>

\* the LED range of the effect is reconfigured (async_update_config)
ChaseRangeChanged(n) ==
    /\ chPc # "none"
    /\ chLeds' = n
    /\ UNCHANGED << position, direction, bounce, chLedCount, chPc, otherThanChase >>

NextChase ==
    \/ \E bouncing \in BOOLEAN, n \in ChaseLedCounts : ChaseConstructed(bouncing, n)
    \/ ChaseStepBegin
    \/ ChaseSent
    \/ ChaseSendFails
    \/ ChaseSleepOver
    \/ \E n \in ChaseLedCounts : ChaseRangeChanged(n)

\* ------------------------------------------------------------------------
\* SparkleEffect.run_effect (effects/sparkle.py) without a state source.
\* Brightness values and the fade rate are exact fractions
\* << numerator, denominator >> with a positive denominator.
\* ------------------------------------------------------------------------

Zero == << 0, 1 >>
One == << 1, 1 >>
\* the 0.01 below which a faded value is cleaned up
Epsilon == << 1, 100 >>

Times(a, b) == << a[1] * b[1], a[2] * b[2] >>
Less(a, b) == a[1] * b[2] < b[1] * a[2]

\* fade rates of the configuration (0.0 to 1.0, below 1)
FadeRates == {<< 0, 1 >>, << 1, 10 >>, << 1, 4 >>, << 1, 2 >>, << 2, 3 >>}

\* fade rates used with a positive density
DenseRates == {<< 0, 1 >>, << 1, 10 >>}

\* the values b, b * rate, b * rate^2, ... that are at least 0.01, and 0.0
RECURSIVE Ages(_, _)
Ages(b, rate) ==
    IF Less(b, Epsilon) THEN {Zero} ELSE {b} \cup Ages(Times(b, rate), rate)

\* what an array entry can hold between render steps: 0.0, or a sparkle
\* faded at least once that is still at least 0.01
HeldValues(rate) == Ages(Times(One, rate), rate)

\* the arrays the effect is observed with: without sparkles any array of
\* held values; with sparkles the all-zero array setup() creates
SparkleInputs ==
    UNION {{[rate |-> r, density |-> 0, values |-> v] :
               v \in [1..SparkleLeds -> HeldValues(r)]} : r \in FadeRates}
    \cup
    {[rate |-> r, density |-> 100, values |-> [i \in 1..DenseLeds |-> Zero]] : r \in DenseRates}

InitSparkle ==
    /\ led_brightness = << >>
    /\ fade_rate = << 4, 5 >>
    /\ density = 10
    /\ spPc = "none"
    /\ spStart = << >>
    /\ spSteps = 0

\* the effect as first observed: its configuration and its brightness array
SparkleObserved(input) ==
    /\ spPc = "none"
    /\ led_brightness' = input.values
    /\ fade_rate' = input.rate
    /\ density' = input.density
    /\ spStart' = input.values
    /\ spSteps' = 0
    /\ spPc' = "idle"
    /\ UNCHANGED otherThanSparkle

\* int(led_count * current_density * 0.1)
SparklesToAdd == (Len(led_brightness) * density) \div 1000

\* a fade that keeps values below 0.01
FadedNoCleanup(b, rate) ==
    IF Less(Zero, b) THEN Times(b, rate) ELSE b

\* one entry after the fade loop: a positive value is multiplied by the
\* fade rate and set to 0.0 when the product is below 0.01
Faded(b, rate) ==
    IF Less(Zero, b)
    THEN IF Less(Times(b, rate), Epsilon) THEN Zero ELSE Times(b, rate)
    ELSE b

\* run_effect() up to its transmission: the randomly picked LEDs are set to
\* 1.0, then every LED is faded
SparkleRender(picks) ==
    /\ spPc = "idle"
    /\ spSteps < MaxFadeSteps
    /\ LET lit == [i \in 1..Len(led_brightness) |->
                      IF \E j \in DOMAIN picks : picks[j] = i THEN One
                      ELSE led_brightness[i]]
       IN  led_brightness' = [i \in 1..Len(led_brightness) |-> Faded(lit[i], fade_rate)]
    /\ spSteps' = spSteps + 1
    /\ spPc' = "sending"
    /\ UNCHANGED << fade_rate, density, spStart, otherThanSparkle >>

\* the transmission returned: the step sleeps
SparkleSent ==
    /\ spPc = "sending"
    /\ spPc' = "sleep"
    /\ UNCHANGED << led_brightness, fade_rate, density, spStart, spSteps, otherThanSparkle >>

\* the transmission (the fallback command included) raised: run_effect ends
\* with the array as faded
SparkleSendFails ==
    /\ spPc = "sending"
    /\ spPc' = "idle"
    /\ UNCHANGED << led_brightness, fade_rate, density, spStart, spSteps, otherThanSparkle >>

\* the sleep is over: run_effect returns
SparkleSleepOver ==
    /\ spPc = "sleep"
    /\ spPc' = "idle"
    /\ UNCHANGED << led_brightness, fade_rate, density, spStart, spSteps, otherThanSparkle >>

NextSparkle ==
    \/ \E input \in SparkleInputs : SparkleObserved(input)
    \/ \E picks \in [1..SparklesToAdd -> 1..Len(led_brightness)] : SparkleRender(picks)
    \/ SparkleSent
    \/ SparkleSendFails
    \/ SparkleSleepOver

\* ------------------------------------------------------------------------
\* AlertEffect (effects/alert.py) with max_duration, without acknowledgment
\* entity, run by WLEDEffectBase._run_loop
\* ------------------------------------------------------------------------

\* the max_duration values of the configuration
AlertDurations == {0, 2}

InitAlert ==
    /\ alNow = 0
    /\ max_duration = 0
    /\ alert_start_time = NoTime
    /\ alRunning = FALSE
    /\ alStarted = NoTime
    /\ alPc = "none"
    /\ alOffAt = NoTime
    /\ alAfterOff = 0

\* AlertEffect.__init__: start_time = time.time()
AlertConstructed(duration) ==
    /\ alPc = "none"
    /\ max_duration' = duration
    /\ alert_start_time' = alNow
    /\ alPc' = "idle"
    /\ UNCHANGED << alNow, alRunning, alStarted, alOffAt, alAfterOff, otherThanAlert >>

\* a second passes
AlertTick ==
    /\ alNow < MaxAlertTime
    /\ alNow' = alNow + 1
    /\ UNCHANGED << max_duration, alert_start_time, alRunning, alStarted, alPc,
                    alOffAt, alAfterOff, otherThanAlert >>

\* start(): the loop task is created; AlertEffect.start_time stays as it is
AlertStart ==
    /\ alPc # "none"
    /\ ~alRunning
    /\ alRunning' = TRUE
    /\ alStarted' = alNow
    /\ alPc' = "idle"
    /\ alOffAt' = NoTime
    /\ alAfterOff' = 0
    /\ UNCHANGED << alNow, max_duration, alert_start_time, otherThanAlert >>

\* stop(): the loop task is cancelled
AlertStop ==
    /\ alRunning
    /\ alRunning' = FALSE
    /\ alPc' = "idle"
    /\ UNCHANGED << alNow, max_duration, alert_start_time, alStarted, alOffAt,
                    alAfterOff, otherThanAlert >>

\* the max-duration test of run_effect
Expired == max_duration > 0 /\ alNow - alert_start_time > max_duration

\* the loop calls run_effect(): past max_duration it sends the off command,
\* otherwise it renders and transmits a frame
AlertStepBegin ==
    /\ alRunning
    /\ alPc = "idle"
    /\ alAfterOff < MaxAfterOff
    /\ alPc' = IF Expired THEN "off_cmd" ELSE "frame"
    /\ alOffAt' = IF Expired /\ alOffAt = NoTime THEN alNow ELSE alOffAt
    /\ alAfterOff' = IF alOffAt # NoTime THEN alAfterOff + 1 ELSE alAfterOff
    /\ UNCHANGED << alNow, max_duration, alert_start_time, alRunning, alStarted,
                    otherThanAlert >>

\* the off command returned or raised: run_effect is over, the loop goes on
AlertOffOver ==
    /\ alPc = "off_cmd"
    /\ alPc' = "idle"
    /\ UNCHANGED << alNow, max_duration, alert_start_time, alRunning, alStarted,
                    alOffAt, alAfterOff, otherThanAlert >>

\* the frame's transmission returned: the step sleeps
AlertFrameSent ==
    /\ alPc = "frame"
    /\ alPc' = "sleep"
    /\ UNCHANGED << alNow, max_duration, alert_start_time, alRunning, alStarted,
                    alOffAt, alAfterOff, otherThanAlert >>

\* the frame's transmission raised, or the sleep is over: run_effect is over
AlertStepOver ==
    /\ alPc \in {"frame", "sleep"}
    /\ alPc' = "idle"
    /\ UNCHANGED << alNow, max_duration, alert_start_time, alRunning, alStarted,
                    alOffAt, alAfterOff, otherThanAlert >>

NextAlert ==
    \/ \E duration \in AlertDurations : AlertConstructed(duration)
    \/ AlertTick
    \/ AlertStart
    \/ AlertStop
    \/ AlertStepBegin
    \/ AlertOffOver
    \/ AlertFrameSent
    \/ AlertStepOver

\* ------------------------------------------------------------------------
\* DataMapper (data_mapper.py). The floats of map() are exact fractions
\* << numerator, denominator >> with a positive denominator; on the inputs
\* drawn here the float computation rounds to the same integers.
\* ------------------------------------------------------------------------

\* the ranges mappers are constructed with: << input_min, input_max,
\* output_min, output_max >>, input_min <= input_max
MapperRanges == {<< 0, 100, 0, 255 >>, << 0, 0, 0, 255 >>, << 10, 20, 255, 0 >>}

Curves == {"linear", "ease_in", "ease_out", "ease_in_out"}

\* the values mapped
MapperValues == {5 * k - 10 : k \in 0..MaxMapperValue}

InitMapper ==
    /\ input_min = 0
    /\ input_max = 100
    /\ output_min = 0
    /\ output_max = 255
    /\ clamp = TRUE
    /\ curve = "linear"
    /\ dmPc = "none"
    /\ dmValue = 0
    /\ dmResult = 0

\* DataMapper.__init__
MapperConstructed(range, clamping, shape) ==
    /\ dmPc = "none"
    /\ input_min' = range[1]
    /\ input_max' = range[2]
    /\ output_min' = range[3]
    /\ output_max' = range[4]
    /\ clamp' = clamping
    /\ curve' = shape
    /\ dmPc' = "ready"
    /\ UNCHANGED << dmValue, dmResult, otherThanMapper >>

\* the value normalized to the input range, 0.5 for an empty range
Normalized(value) ==
    IF input_max - input_min = 0 THEN << 1, 2 >>
    ELSE << value - input_min, input_max - input_min >>

\* the curve applied to a normalized value x
Curved(x) ==
    LET n == x[1]
        d == x[2]
    IN  IF curve = "ease_in" THEN << n * n, d * d >>
        ELSE IF curve = "ease_out" THEN << d * d - (d - n) * (d - n), d * d >>
        ELSE IF curve = "ease_in_out"
        THEN IF 2 * n < d THEN << 2 * n * n, d * d >>
             ELSE << d * d - 2 * (d - n) * (d - n), d * d >>
        ELSE x

\* min() and max() of Python on two fractions: the first argument on a tie
PyMin(a, b) == IF Less(b, a) THEN b ELSE a
PyMax(a, b) == IF Less(a, b) THEN b ELSE a

\* DataMapper.map
Map(value) ==
    LET x == Curved(Normalized(value))
        output == << output_min * x[2] + x[1] * (output_max - output_min), x[2] >>
    IN  IF clamp
        THEN PyMax(<< output_min, 1 >>, PyMin(<< output_max, 1 >>, output))
        ELSE output

\* a conversion that drops the fraction
Truncated(x) ==
    IF x[1] >= 0 THEN x[1] \div x[2] ELSE -((-x[1]) \div x[2])

\* round() of Python: to the nearest integer, a tie to the even one
Round(x) ==
    LET floor == x[1] \div x[2]
        twice == 2 * (x[1] - floor * x[2])
    IN  IF twice < x[2] THEN floor
        ELSE IF twice > x[2] THEN floor + 1
        ELSE IF floor % 2 = 0 THEN floor
        ELSE floor + 1

\* DataMapper.map_to_int
MapToInt(value) ==
    /\ dmPc # "none"
    /\ dmValue' = value
    /\ dmResult' = Round(Map(value))
    /\ dmPc' = "called"
    /\ UNCHANGED << input_min, input_max, output_min, output_max, clamp, curve,
                    otherThanMapper >>

NextMapper ==
    \/ \E range \in MapperRanges, clamping \in BOOLEAN, shape \in Curves :
          MapperConstructed(range, clamping, shape)
    \/ \E value \in MapperValues : MapToInt(value)

\* ------------------------------------------------------------------------
\* The per-LED frame of a render step and WLEDEffectBase.apply_reverse
\* ------------------------------------------------------------------------

\* the effects whose run_effect passes its colors through apply_reverse
\* before set_individual_leds
ReversingEffects == {"chase", "sparkle", "alert", "loading", "rainbow_wave"}

\* the effects whose run_effect passes the generated pattern to
\* set_individual_leds as it is
PlainEffects == {"breathe", "segment_fade"}

\* the patterns a render step generates: one color index per LED
Frames == UNION {[1..n -> 1..2] : n \in 1..MaxFrameLen}

InitReverse ==
    /\ rvKind = "chase"
    /\ reverse_direction = FALSE
    /\ rvFrame = << >>
    /\ rvSent = << >>
    /\ rvPc = "none"

\* WLEDEffectBase.__init__ of an effect of the given class
ReverseConstructed(kind, reverse) ==
    /\ rvPc = "none"
    /\ rvKind' = kind
    /\ reverse_direction' = reverse
    /\ rvPc' = "ready"
    /\ UNCHANGED << rvFrame, rvSent, otherThanReverse >>

\* list(reversed(led_array))
Reversed(led_array) ==
    [i \in 1..Len(led_array) |-> led_array[Len(led_array) + 1 - i]]

\* WLEDEffectBase.apply_reverse
ApplyReverse(led_array) ==
    IF reverse_direction THEN Reversed(led_array) ELSE led_array

\* run_effect() with a JSON client: the pattern is generated and passed to
\* set_individual_leds, through apply_reverse in the effects that call it
RenderFrame(frame) ==
    /\ rvPc # "none"
    /\ rvFrame' = frame
    /\ rvSent' = IF rvKind \in ReversingEffects THEN ApplyReverse(frame) ELSE frame
    /\ rvPc' = "sent"
    /\ UNCHANGED << rvKind, reverse_direction, otherThanReverse >>

NextReverse ==
    \/ \E kind \in ReversingEffects \cup PlainEffects, reverse \in BOOLEAN :
          ReverseConstructed(kind, reverse)
    \/ \E frame \in Frames : RenderFrame(frame)

\* ------------------------------------------------------------------------
\* WLEDEffectBase.map_value and ValueSmoother (effects/base.py, data_mapper.py)
\* ------------------------------------------------------------------------

\* Values are exact fractions << n, d >>.  Mapped values have the denominator
\* Unit; every smoothing multiplies the denominator by 10.
Unit == 2000

\* None in ValueSmoother.current_value
NoValue == << 0, 0 >>

\* the state values of the watched entity, normalized to 0.0 .. 1.0, in Unit
StateValues == {0, Unit \div 2, Unit}

\* the output ranges << output_min, output_max >> of the smoothed parameters,
\* in Unit: chase speed 0.001 .. 0.5 and length 1.0 .. 20.0, sparkle density
\* 0.01 .. 1.0 and fade rate 0.95 .. 0.5
ChaseSpeedRange == << 2, 1000 >>
ChaseLengthRange == << 2000, 40000 >>
SparkleDensityRange == << 20, 2000 >>
SparkleFadeRange == << 1900, 1000 >>

TransitionModes == {"instant", "fade", "smooth"}

\* the values of state_controls each effect offers
StateControls(kind) ==
    IF kind = "chase" THEN {"speed", "length", "both", "direction"}
    ELSE {"density", "speed", "both"}

\* the output ranges of the map_value calls of one render step, in call order
SmoothedRanges(kind, controls) ==
    IF kind = "chase"
    THEN (IF controls \in {"speed", "both"} THEN << ChaseSpeedRange >> ELSE << >>)
         \o (IF controls \in {"length", "both"} THEN << ChaseLengthRange >> ELSE << >>)
    ELSE (IF controls \in {"density", "both"} THEN << SparkleDensityRange >> ELSE << >>)
         \o (IF controls \in {"speed", "both"} THEN << SparkleFadeRange >> ELSE << >>)

InitSmooth ==
    /\ smKind = "chase"
    /\ smControls = "speed"
    /\ transition_mode = "smooth"
    /\ current_value = NoValue
    /\ smReturns = << >>
    /\ smCalls = 0
    /\ smPc = "none"

\* WLEDEffectBase.__init__: the smoother exists in "smooth" mode only
SmoothConstructed(kind, controls, mode) ==
    /\ smPc = "none"
    /\ smKind' = kind
    /\ smControls' = controls
    /\ transition_mode' = mode
    /\ current_value' = NoValue
    /\ smPc' = "ready"
    /\ UNCHANGED << smReturns, smCalls, otherThanSmooth >>

\* DataMapper.map of a value in [0.0, 1.0] with the default linear curve and
\* clamp, in Unit
Mapped(value, range) ==
    LET output == range[1] + (value * (range[2] - range[1])) \div Unit
        upper == IF range[2] < output THEN range[2] ELSE output
    IN  IF range[1] > upper THEN range[1] ELSE upper

\* ValueSmoother.smooth with alpha = 0.3: the value returned and kept
Smoothed(current, new_value) ==
    IF current = NoValue THEN << new_value, Unit >>
    ELSE << 3 * new_value * (current[2] \div Unit) + 7 * current[1], 10 * current[2] >>

\* WLEDEffectBase.map_value(value, 0.0, 1.0, output_min, output_max, smooth=True)
\* with the smoother value before the call: the value returned
MapValue(current, value, range) ==
    IF transition_mode = "smooth" THEN Smoothed(current, Mapped(value, range))
    ELSE << Mapped(value, range), Unit >>

\* the smoother value after the call
Kept(current, value, range) ==
    IF transition_mode = "smooth" THEN MapValue(current, value, range) ELSE current

\* the map_value calls of one render step with the state value read
RenderMapValues(value) ==
    LET ranges == SmoothedRanges(smKind, smControls)
        first == MapValue(current_value, value, ranges[1])
        after == Kept(current_value, value, ranges[1])
        second == MapValue(after, value, ranges[2])
    IN  /\ smPc = "ready"
        /\ smCalls < MaxSmoothCalls
        /\ smReturns' =
              IF Len(ranges) = 0 THEN << >>
              ELSE IF Len(ranges) = 1 THEN << << first, ranges[1] >> >>
              ELSE << << first, ranges[1] >>, << second, ranges[2] >> >>
        /\ current_value' =
              IF Len(ranges) = 0 THEN current_value
              ELSE IF Len(ranges) = 1 THEN after
              ELSE Kept(after, value, ranges[2])
        /\ smCalls' = smCalls + Len(ranges)
        /\ UNCHANGED << smKind, smControls, transition_mode, smPc, otherThanSmooth >>

NextSmooth ==
    \/ \E kind \in {"chase", "sparkle"} : \E controls \in StateControls(kind) :
           \E mode \in TransitionModes : SmoothConstructed(kind, controls, mode)
    \/ \E value \in StateValues : RenderMapValues(value)

\* ------------------------------------------------------------------------
\* TriggerManager: time triggers (trigger_manager.py)
\* ------------------------------------------------------------------------

\* The wall clock counts half minutes: check_time sleeps 30 seconds after a
\* miss and 60 seconds after a match.  A minute m stands for one HH:MM value.
Minutes == 0..(MaxClock \div 2)

\* time_pattern None or empty
NoPattern == -1
\* a time_pattern that does not parse as HH:MM
BadPattern == -2

\* self._time_task is None
NoTask == 0

TimePatterns == Minutes \cup {NoPattern, BadPattern}

\* the time triggers added before setup()
TimeTriggerLists ==
    UNION {[1..n -> TimePatterns] : n \in 1..2}

InitTime ==
    /\ time_triggers = << >>
    /\ time_task = NoTask
    /\ ttWake = 0
    /\ ttNow = 0
    /\ ttFired = << >>
    /\ ttSetupAt = NoTime
    /\ ttPc = "none"

\* add_trigger for each time trigger
TimeTriggersAdded(patterns) ==
    /\ ttPc = "none"
    /\ time_triggers' = patterns
    /\ ttFired' = [i \in 1..Len(patterns) |-> {}]
    /\ ttPc' = "added"
    /\ UNCHANGED << time_task, ttWake, ttNow, ttSetupAt, otherThanTime >>

\* _setup_time_trigger returns early for a missing or an invalid pattern
ValidPattern(pattern) == pattern \notin {NoPattern, BadPattern}

\* the trigger whose check_time task setup() creates: _setup_time_trigger
\* creates a task only while self._time_task is None or done, and check_time
\* never finishes, so only the first trigger with a valid pattern gets one
RECURSIVE TaskAfter(_, _)
TaskAfter(i, created) ==
    IF i > Len(time_triggers) THEN created
    ELSE IF ValidPattern(time_triggers[i]) /\ created = NoTask THEN TaskAfter(i + 1, i)
    ELSE TaskAfter(i + 1, created)

\* TriggerManager.setup()
TimeSetup ==
    /\ ttPc = "added"
    /\ time_task' = TaskAfter(1, time_task)
    /\ ttWake' = ttNow
    /\ ttSetupAt' = ttNow
    /\ ttPc' = "setup"
    /\ UNCHANGED << time_triggers, ttNow, ttFired, otherThanTime >>

\* the check_time task is ready to run
TaskDue == ttPc = "setup" /\ time_task # NoTask /\ ttWake <= ttNow

\* one iteration of check_time: _fire_trigger and a sleep of 60 seconds on a
\* match, a sleep of 30 seconds otherwise
CheckTime ==
    LET minute == ttNow \div 2
    IN  /\ TaskDue
        /\ IF minute = time_triggers[time_task]
           THEN /\ ttFired' = [ttFired EXCEPT ![time_task] = @ \cup {minute}]
                /\ ttWake' = ttNow + 2
           ELSE /\ ttWake' = ttNow + 1
                /\ UNCHANGED ttFired
        /\ UNCHANGED << time_triggers, time_task, ttNow, ttSetupAt, ttPc, otherThanTime >>

\* 30 seconds pass; a task whose sleep is over runs first
TimeTick ==
    /\ ~TaskDue
    /\ ttNow < MaxClock
    /\ ttNow' = ttNow + 1
    /\ UNCHANGED << time_triggers, time_task, ttWake, ttFired, ttSetupAt, ttPc, otherThanTime >>

NextTime ==
    \/ \E patterns \in TimeTriggerLists : TimeTriggersAdded(patterns)
    \/ TimeSetup
    \/ CheckTime
    \/ TimeTick

\* ------------------------------------------------------------------------
\* TriggerManager: threshold trigger (trigger_manager.py)
\* ------------------------------------------------------------------------

Comparisons == {">", "<", "==", ">=", "<="}

Thresholds == {0, 1}

\* the state-change events of the watched entity: a numeric state, a state
\* that float() rejects, and an event without new_state
StateEvents ==
    {[kind |-> "number", val |-> v] : v \in 0..2}
        \cup {[kind |-> "text", val |-> 0], [kind |-> "removed", val |-> 0]}

InitThreshold ==
    /\ threshold = 0
    /\ comparison = ">"
    /\ thSuspends = FALSE
    /\ last_triggered = FALSE
    /\ thEvents = << >>
    /\ thPc = << >>
    /\ thFires = 0
    /\ thSetup = FALSE

\* add_trigger and _setup_threshold_trigger: last_triggered = False and the
\* handler is subscribed
ThresholdSetup(limit, op, suspends) ==
    /\ ~thSetup
    /\ threshold' = limit
    /\ comparison' = op
    /\ thSuspends' = suspends
    /\ last_triggered' = FALSE
    /\ thSetup' = TRUE
    /\ UNCHANGED << thEvents, thPc, thFires, otherThanThreshold >>

\* the threshold check of state_changed
Triggered(v) ==
    IF comparison = ">" THEN v > threshold
    ELSE IF comparison = "<" THEN v < threshold
    ELSE IF comparison = "==" THEN v = threshold
    ELSE IF comparison = ">=" THEN v >= threshold
    ELSE v <= threshold

\* state_changed(event) up to its first suspension: an event without
\* new_state or with a value float() rejects returns; a rising comparison
\* calls _fire_trigger, which awaits the callback; last_triggered is assigned
\* after _fire_trigger has returned
StateChanged(event) ==
    LET triggered == Triggered(event.val)
        fires == event.kind = "number" /\ triggered /\ ~last_triggered
    IN  /\ thSetup
        /\ Len(thEvents) < MaxEvents
        /\ thEvents' = Append(thEvents, event)
        /\ thFires' = IF fires THEN thFires + 1 ELSE thFires
        /\ thPc' = Append(thPc, IF fires /\ thSuspends THEN "firing" ELSE "done")
        /\ last_triggered' =
              IF event.kind = "number" /\ ~(fires /\ thSuspends) THEN triggered
              ELSE last_triggered
        /\ UNCHANGED << threshold, comparison, thSuspends, thSetup, otherThanThreshold >>

\* the awaited callback of handler i returns: _fire_trigger returns and
\* state_changed assigns last_triggered = triggered, which was True
CallbackReturned(i) ==
    /\ i <= Len(thPc)
    /\ thPc[i] = "firing"
    /\ thPc' = [thPc EXCEPT ![i] = "done"]
    /\ last_triggered' = TRUE
    /\ UNCHANGED << threshold, comparison, thSuspends, thEvents, thFires, thSetup,
                    otherThanThreshold >>

NextThreshold ==
    \/ \E limit \in Thresholds : \E op \in Comparisons : \E suspends \in BOOLEAN :
           ThresholdSetup(limit, op, suspends)
    \/ \E event \in StateEvents : StateChanged(event)
    \/ \E i \in 1..MaxEvents : CallbackReturned(i)

\* ------------------------------------------------------------------------
\* SegmentFadeEffect.run_effect: current_step and direction (segment_fade.py)
\* ------------------------------------------------------------------------

InitSegmentFade ==
    /\ steps = 1
    /\ current_step = 0
    /\ sfDirection = 1
    /\ sfControls = "speed"
    /\ sfEntity = FALSE
    /\ sfAdvances = 0
    /\ sfPc = "none"

\* SegmentFadeEffect.__init__ with steps >= 1
SegmentFadeConstructed(n, controls, entity) ==
    /\ sfPc = "none"
    /\ steps' = n
    /\ current_step' = 0
    /\ sfDirection' = 1
    /\ sfControls' = controls
    /\ sfEntity' = entity
    /\ sfPc' = "idle"
    /\ UNCHANGED << sfAdvances, otherThanSegmentFade >>

\* state_value is not None exactly when a state entity is configured, and it
\* sets the position when state_controls is "position"
StateControlsPosition == sfEntity /\ sfControls = "position"

\* an update that does not turn around at the upper end
AdvancedOneWay(step, dir, n) ==
    LET moved == step + dir
    IN  IF moved >= n THEN << n, dir >>
        ELSE IF moved <= 0 THEN << 0, 1 >>
        ELSE << moved, dir >>

\* the update of current_step and direction in auto-cycling mode:
\* << current_step, direction >> after it
Advanced(step, dir, n) ==
    LET moved == step + dir
    IN  IF moved >= n THEN << n, -1 >>
        ELSE IF moved <= 0 THEN << 0, 1 >>
        ELSE << moved, dir >>

\* run_effect up to set_individual_leds
SegmentFadeRender ==
    /\ sfPc = "idle"
    /\ sfAdvances < MaxAdvances
    /\ IF StateControlsPosition
       THEN UNCHANGED << current_step, sfDirection, sfAdvances >>
       ELSE /\ current_step' = Advanced(current_step, sfDirection, steps)[1]
            /\ sfDirection' = Advanced(current_step, sfDirection, steps)[2]
            /\ sfAdvances' = sfAdvances + 1
    /\ sfPc' = "sending"
    /\ UNCHANGED << steps, sfControls, sfEntity, otherThanSegmentFade >>

\* the frame (per LED, or the segment command after a per-LED failure) is sent
SegmentFadeSent ==
    /\ sfPc = "sending"
    /\ sfPc' = "sleeping"
    /\ UNCHANGED << steps, current_step, sfDirection, sfControls, sfEntity, sfAdvances,
                    otherThanSegmentFade >>

\* send_wled_command raises: the render step ends without the sleep
SegmentFadeSendFails ==
    /\ sfPc = "sending"
    /\ sfPc' = "idle"
    /\ UNCHANGED << steps, current_step, sfDirection, sfControls, sfEntity, sfAdvances,
                    otherThanSegmentFade >>

\* asyncio.sleep(transition_speed / steps / speed_multiplier) is over
SegmentFadeSleepOver ==
    /\ sfPc = "sleeping"
    /\ sfPc' = "idle"
    /\ UNCHANGED << steps, current_step, sfDirection, sfControls, sfEntity, sfAdvances,
                    otherThanSegmentFade >>

NextSegmentFade ==
    \/ \E n \in 1..MaxSteps : \E controls \in {"speed", "position"} :
           \E entity \in BOOLEAN : SegmentFadeConstructed(n, controls, entity)
    \/ SegmentFadeRender
    \/ SegmentFadeSent
    \/ SegmentFadeSendFails
    \/ SegmentFadeSleepOver

Init == InitEngine /\ InitCB /\ InitRL /\ InitRequest /\ InitLeds /\ InitStep /\ InitManager /\ InitFrame /\ InitSetState /\ InitConfig /\ InitChase /\ InitSparkle /\ InitAlert /\ InitMapper /\ InitReverse /\ InitSmooth /\ InitTime /\ InitThreshold /\ InitSegmentFade

SpecEngine == Init /\ [][NextEngine]_vars

SpecCB == Init /\ [][NextCB]_vars

SpecRL == Init /\ [][NextRL]_vars

\* the event loop runs every coroutine that is ready to run
SpecRLFair ==
    /\ SpecRL
    /\ \A c \in RLCallers : WF_vars(Wake(c)) /\ WF_vars(LockGranted(c))

SpecRequest == Init /\ [][NextRequest]_vars

SpecLeds == Init /\ [][NextLeds]_vars

SpecStep == Init /\ [][NextStep]_vars

SpecManager == Init /\ [][NextManager]_vars

SpecFrame == Init /\ [][NextFrame]_vars

SpecSetState == Init /\ [][NextSetState]_vars

SpecConfig == Init /\ [][NextConfig]_vars

SpecChase == Init /\ [][NextChase]_vars

SpecSparkle == Init /\ [][NextSparkle]_vars

SpecAlert == Init /\ [][NextAlert]_vars

SpecMapper == Init /\ [][NextMapper]_vars

SpecReverse == Init /\ [][NextReverse]_vars

SpecSmooth == Init /\ [][NextSmooth]_vars

SpecTime == Init /\ [][NextTime]_vars

SpecThreshold == Init /\ [][NextThreshold]_vars

SpecSegmentFade == Init /\ [][NextSegmentFade]_vars

\* ------------------------------------------------------------------------
\* CircuitBreaker: properties
\* ------------------------------------------------------------------------

\* this step is a call() invocation passing the breaker's check
CBCallStep == cbCalls' = cbCalls + 1

\* this step rejects a call() with CircuitBreakerOpenError, the wrapped
\* function not invoked
CBRejectStep ==
    /\ CBCallStep
    /\ cbInvoked' = cbInvoked
    /\ \E k \in CBCallers :
          /\ cbPc[k] = "idle" /\ cbPc'[k] = "idle"
          /\ cbRet'[k] = "CircuitBreakerOpenError"

\* C3: from CLOSED with failure_count 0, after failure_threshold consecutive
\* calls whose wrapped function raised, a call() made less than timeout
\* seconds after the last failure raises CircuitBreakerOpenError and does
\* not invoke the wrapped function.
C3_OpensAfterThreshold ==
    [][(/\ CBCallStep
        /\ cbStreak >= failure_threshold
        /\ cbNow - cb_last_failure_time < timeout) => CBRejectStep]_vars

\* C3 witness: three calls were made, all three raised, and the fourth call
\* has been rejected with CircuitBreakerOpenError.
C3_Witness ==
    /\ cbCalls = failure_threshold + 1
    /\ cbInvoked = failure_threshold
    /\ cb_failure_count = failure_threshold
    /\ cb_success_count = 0
    /\ cb_state = "open"
    /\ \E k \in CBCallers : cbRet[k] = "CircuitBreakerOpenError"

\* C4: a call() on an OPEN breaker whose timeout has elapsed moves it to
\* HALF_OPEN and invokes the wrapped function as the probe; when the probe
\* returns the breaker is CLOSED with failure_count 0, when it raises the
\* breaker is OPEN again with the failure stamped; an OPEN breaker whose
\* timeout has not elapsed rejects the call.
C4_ProbeDecides ==
    [][/\ (CBCallStep /\ cb_state = "open" /\ ShouldAttemptReset) =>
              (cb_state' = "half_open" /\ cbInvoked' = cbInvoked + 1)
       /\ \A k \in CBCallers :
              (cbProbe = k /\ cbPc[k] = "in_func" /\ cbPc'[k] = "idle") =>
                  \/ /\ cbRet'[k] = "ok"
                     /\ cb_state' = "closed"
                     /\ cb_failure_count' = 0
                  \/ /\ cbRet'[k] = "raised"
                     /\ cb_state' = "open"
                     /\ cb_last_failure_time' = cbNow
       /\ (CBCallStep /\ cb_state = "open" /\ ~ShouldAttemptReset) => CBRejectStep
      ]_vars

\* C32: while the breaker is HALF_OPEN no call() is passed through to the
\* wrapped function: the probe is admitted by the step that leaves OPEN, and
\* no further invocation is admitted in that HALF_OPEN episode.
C32_OnlyProbeInHalfOpen ==
    [][cb_state = "half_open" => cbInvoked' = cbInvoked]_vars

\* C33: a wrapped function that returns while the breaker is CLOSED leaves
\* failure_count at 0.
C33_SuccessResetsCount ==
    [][\A k \in CBCallers :
          (cbPc[k] = "in_func" /\ cbRet'[k] = "ok" /\ cb_state = "closed") =>
              cb_failure_count' = 0]_vars

\* ------------------------------------------------------------------------
\* EffectEngine: properties
\* ------------------------------------------------------------------------

\* loop tasks inside a render step that no cancel() has been requested on
Rendering == {t \in Tasks : taskState[t] = "render" /\ t \notin cancelReq}

\* loop tasks not finished that no cancel() has been requested on
LiveLoops == {t \in Tasks : Alive(t) /\ t \notin cancelReq}

\* run_once() calls inside their render step
OnceRendering == {c \in Callers : pc[c] = "once_render"}

\* C1: once a stop() has returned and no start() or run_once() was invoked
\* since that stop() was invoked, no render step of a loop task is executing
\* (a task whose cancellation is pending is not counted as executing).
C1_NoRenderAfterStop == quiet => Rendering = {}

\* C2: at most one render-loop task of the effect is alive (a task whose
\* cancellation is pending is not counted).
C2_OneLoopTask == Cardinality(LiveLoops) <= 1

\* C8: a render step begins only when no other render step of the same
\* effect is in progress: at most one run_effect() is in progress, counting
\* the loop tasks' and the run_once() calls' render steps.
C8_FramesSequential == Cardinality(Rendering) + Cardinality(OnceRendering) <= 1

\* C9: a render step of the loop that raises never ends the loop: the error
\* text is stored, the failure counter goes up by one and the task sleeps
\* the 1 s backoff; the sleep ends only when it is over (or by cancellation)
\* and then, with the running flag true, the next render step begins; a loop
\* task finishes only when cancelled or when the running flag is false.
C9_LoopSelfHealing ==
    [][\A t \in Tasks :
        /\ (taskState[t] = "render" /\ taskState'[t] \notin {"render", "done"}) =>
              /\ taskState'[t] = "backoff"
              /\ last_error' \in Errors
              /\ failure_count' = failure_count + 1
              /\ wake'[t] = BackoffSeconds
        /\ (taskState[t] = "backoff" /\ taskState'[t] # "backoff") =>
              \/ t \in cancelReq
              \/ /\ wake[t] = 0
                 /\ taskState'[t] = (IF running THEN "render" ELSE "done")
        /\ (Alive(t) /\ taskState'[t] = "done") => (t \in cancelReq \/ ~running)
      ]_vars

\* C9 witness: a loop task is in a render step it began after a failed one,
\* with the failure recorded and the effect still running.
C9_Witness ==
    /\ healed
    /\ running
    /\ failure_count >= 1
    /\ last_error \in Errors
    /\ \E t \in Tasks : taskState[t] = "render"

\* C10: run_once() invokes run_effect() exactly once and does not retry; when
\* the render step raises, last_error holds the error and the call raises
\* EffectExecutionError caused by it; no step of run_once() changes the
\* running flag or the render task.
C10_RunOnce ==
    [][\A c \in Callers :
        /\ (pc[c] = "idle" /\ pc'[c] = "once_render") =>
              /\ onceFrames'[c] = 1
              /\ running' = running /\ task' = task /\ taskState' = taskState
        /\ (pc[c] = "once_render" /\ pc'[c] = "once_render") =>
              onceFrames'[c] = onceFrames[c]
        /\ (pc[c] = "once_render" /\ pc'[c] # "once_render") =>
              /\ pc'[c] = "idle"
              /\ onceFrames[c] = 1
              /\ running' = running /\ task' = task /\ taskState' = taskState
              /\ \/ ret' = "ok" /\ cause' = None /\ last_error' = last_error
                 \/ ret' = "EffectExecutionError" /\ cause' \in Errors /\ last_error' = cause'
      ]_vars

\* C10 witness: a run_once() has raised EffectExecutionError while the
\* effect is running with its render task in place.
C10_Witness ==
    /\ ret = "EffectExecutionError"
    /\ cause \in Errors
    /\ last_error = cause
    /\ running
    /\ task # 0 /\ Alive(task)

\* ------------------------------------------------------------------------
\* RateLimiter: properties
\* ------------------------------------------------------------------------

\* successful acquire() returns in the trailing window that ends at instant t
ReturnedWithin(t) ==
    {i \in 1..Len(rlLog) : t - window <= rlLog[i] /\ rlLog[i] <= t}

\* this step is an acquire() invocation
RLCallStep == rlCalls' = rlCalls + 1

\* this step is a successful return of acquire()
RLReturnStep == Len(rlLog') = Len(rlLog) + 1

\* caller c can run as soon as the event loop gets to it
Runnable(c) ==
    \/ rlPc[c] = "sleep" /\ rlNow >= rlWake[c]
    \/ rlPc[c] = "lock_wait" /\ rlLock = None /\ Head(rlQueue) = c

\* C5: in every trailing interval of window seconds, at most max_commands
\* acquire() calls returned successfully, whatever the interleaving of the
\* callers.
C5_RateBound ==
    \A t \in 0..rlNow : Cardinality(ReturnedWithin(t)) <= max_commands

\* C5 witness: both callers have acquired, more acquires succeeded than one
\* window admits, and some window holds exactly max_commands of them.
C5_Witness ==
    /\ Len(rlLog) > max_commands
    /\ \A c \in RLCallers : rlRet[c] = "ok"
    /\ \E t \in 0..rlNow : Cardinality(ReturnedWithin(t)) = max_commands

\* C6: an acquire() called when max_commands acquires succeeded within the
\* trailing window does not return in that step; a caller that found the
\* window full returns only once the oldest timestamp it saw is older than
\* window seconds; an acquire() called when fewer than max_commands
\* succeeded within the trailing window and nobody else is inside acquire()
\* returns at once (so acquires spaced more than window apart never wait);
\* and a caller without timeout sleeping on a full window does return once
\* that oldest timestamp has expired.
C6_WaitsForOldest ==
    /\ [][/\ (RLCallStep /\ Cardinality(ReturnedWithin(rlNow)) >= max_commands)
                 => ~RLReturnStep
          /\ \A c \in RLCallers :
                 (rlPc[c] = "sleep" /\ rlPc'[c] = "idle" /\ rlRet'[c] = "ok")
                     => rlNow > rlSaw[c] + window
          /\ (/\ RLCallStep
              /\ \A c \in RLCallers : rlPc[c] = "idle"
              /\ Cardinality(ReturnedWithin(rlNow)) < max_commands)
                 => (RLReturnStep /\ rlLog' = Append(rlLog, rlNow))
         ]_vars
    /\ \A c \in RLCallers :
          (rlPc[c] = "sleep" /\ rlTimeout[c] = NoTime /\ rlNow > rlSaw[c] + window)
              ~> (rlPc[c] = "idle" /\ rlRet[c] = "ok")

\* C6 witness: max_commands acquires succeeded within less than window
\* seconds, and the next acquire(), made without timeout, found the window
\* full and returned after the oldest of them had expired.
C6_Witness ==
    /\ Len(rlLog) = max_commands + 1
    /\ rlLog[max_commands] - rlLog[1] < window
    /\ rlLog[max_commands + 1] > rlLog[1] + window
    /\ \E c \in RLCallers :
          /\ rlPc[c] = "idle" /\ rlRet[c] = "ok"
          /\ rlTimeout[c] = NoTime
          /\ rlSaw[c] = rlLog[1]

\* C7: a caller of acquire(timeout=T) is not inside acquire() T seconds after
\* its call or later, unless the event loop still has a coroutine of the
\* limiter ready to run.
C7_TimeoutBounds ==
    \A c \in RLCallers :
        (/\ rlPc[c] # "idle"
         /\ rlTimeout[c] # NoTime
         /\ rlNow >= rlCalled[c] + rlTimeout[c])
            => \E d \in RLCallers : Runnable(d)

\* ------------------------------------------------------------------------
\* WLEDJsonApiClient._request: properties
\* ------------------------------------------------------------------------

\* the call has ended (returned or raised)
RequestOver == rqPc = "idle" /\ rqRet # None

\* what a retryable attempt ends with
Retryable(outcome) ==
    \/ outcome.raised \in {"TimeoutError", "ClientConnectionError"}
    \/ outcome.raised = None /\ outcome.status >= 500

\* the exception an attempt's outcome stands for
UnderlyingError(outcome, a) ==
    IF outcome.raised = None THEN Error("ClientResponseError", a)
    ELSE Error(outcome.raised, a)

Is4xx(outcome) ==
    outcome.raised = None /\ outcome.status >= 400 /\ outcome.status < 500

IsSuccess(outcome) == outcome.raised = None /\ outcome.status < 400

\* C11: an attempt answered with a 4xx status is the last attempt of its
\* call: no backoff sleep follows it, the call raises WLEDConnectionError
\* caused by the HTTP error of that attempt; answered on the first attempt,
\* exactly one attempt is made and no sleep at all.
C11_No4xxRetry ==
    \A i \in 1..Len(rqHistory) :
        Is4xx(rqHistory[i]) =>
            /\ i = Len(rqHistory)
            /\ Len(rqSleeps) = i - 1
            /\ rqPc = "idle"
            /\ rqRet = "WLEDConnectionError"
            /\ rqCause = Error("ClientResponseError", i - 1)

\* C11 witness: a call allowed three attempts was answered 4xx on its first
\* attempt and has raised after that single attempt.
C11_Witness ==
    /\ max_retries = MaxRetries
    /\ rqHistory = << Answered(404) >>
    /\ rqSleeps = << >>
    /\ rqRet = "WLEDConnectionError"

\* C12: with max_retries = n >= 1, the sleep after failed attempt k is 2^k
\* seconds and at most n - 1 sleeps are made; a call whose attempts all
\* failed with a retryable error ends after exactly n attempts and n - 1
\* sleeps (none after the last attempt), raising WLEDConnectionError caused
\* by the last attempt's error; a successful attempt ends the call at once
\* with its result.
C12_RetryWithBackoff ==
    /\ \A k \in 1..Len(rqSleeps) : rqSleeps[k] = Pow2(k - 1)
    /\ Len(rqSleeps) <= Len(rqHistory)
    /\ max_retries >= 1 => Len(rqSleeps) <= max_retries - 1
    /\ Len(rqHistory) <= max_retries
    /\ (/\ RequestOver
        /\ max_retries >= 1
        /\ \A i \in 1..Len(rqHistory) : Retryable(rqHistory[i])) =>
            /\ Len(rqHistory) = max_retries
            /\ Len(rqSleeps) = max_retries - 1
            /\ rqRet = "WLEDConnectionError"
            /\ rqCause = UnderlyingError(rqHistory[max_retries], max_retries - 1)
    /\ \A i \in 1..Len(rqHistory) :
          IsSuccess(rqHistory[i]) =>
              /\ i = Len(rqHistory)
              /\ Len(rqSleeps) = i - 1
              /\ rqPc = "idle"
              /\ rqRet = "ok"

\* C12 witness: a call with max_retries = 3 failed three times with
\* retryable errors of each sort, slept 1 s and 2 s and has raised.
C12_Witness ==
    /\ max_retries = 3
    /\ rqHistory = << Answered(503), Raised("TimeoutError"),
                      Raised("ClientConnectionError") >>
    /\ rqSleeps = << 1, 2 >>
    /\ rqRet = "WLEDConnectionError"
    /\ rqCause = Error("ClientConnectionError", 2)

\* ------------------------------------------------------------------------
\* WLEDJsonApiClient.set_individual_leds: properties
\* ------------------------------------------------------------------------

\* the estimated payload of the call's colors, as set_individual_leds
\* computes it
EstimatedOfCall ==
    EstimateBufferSize(LedData(IF ledStart > 0 THEN ledStart ELSE NoIndex,
                               HexColors(ledColors)))

\* the call went the batched way
Batched == ledColors # << >> /\ EstimatedOfCall > ledMaxBuffer

\* the LED index the k-th request starts at
FirstLed(k) == IF ledSent[k].index = NoIndex THEN 0 ELSE ledSent[k].index

\* C13: on the batched path the requests sent so far are contiguous and in
\* increasing index order: the first starts at start_index, each next one
\* where the previous ended, none is empty, and each carries the colors of
\* its own indices; a completed call has sent more than one request and
\* ends exactly at start_index + len(colors) - 1.
C13_BatchesCoverOnce ==
    Batched =>
        /\ Len(ledSent) >= 1
        /\ FirstLed(1) = ledStart
        /\ \A k \in 1..Len(ledSent) :
              /\ ledSent[k].index # NoIndex
              /\ Len(ledSent[k].hex) >= 1
              /\ k > 1 => FirstLed(k) = FirstLed(k - 1) + Len(ledSent[k - 1].hex)
              /\ \A j \in 1..Len(ledSent[k].hex) :
                    ledSent[k].hex[j] =
                        ColorToHex(ledColors[FirstLed(k) - ledStart + j])
        /\ ledRet = "ok" =>
              /\ Len(ledSent) > 1
              /\ FirstLed(Len(ledSent)) + Len(ledSent[Len(ledSent)].hex)
                     = ledStart + Len(ledColors)

\* C13 witness: 1597 colors from start index 7 on a 10000-byte device have
\* been sent completely, in three batches.
C13_Witness ==
    /\ Batched
    /\ ledRet = "ok"
    /\ ledStart = 7
    /\ Len(ledColors) = 1597
    /\ ledMaxBuffer = MAX_BUFFER_ESP8266
    /\ Len(ledSent) = 3

\* C14: the estimated size of every batch request's led_data, leading index
\* included, is below 80% of max_buffer.
C14_BatchUnder80Percent ==
    Batched =>
        \A k \in 1..Len(ledSent) :
            10 * EstimateBufferSize(ledSent[k]) < 8 * ledMaxBuffer

\* ------------------------------------------------------------------------
\* Per-LED render step: properties
\* ------------------------------------------------------------------------

\* C15: in a render step of an effect with a JSON client whose per-LED
\* transmission raised, exactly one whole-segment command has been sent (the
\* fallback, in that same step, after the one per-LED attempt), the step
\* ends with an error only when that command failed, and when the command
\* succeeded the step ends normally.
C15_FallbackOnce ==
    fxPerLedFailed =>
        /\ json_client
        /\ fxPerLed = 1
        /\ fxSegment = 1
        /\ fxPc \in {"fallback_cmd", "sleep", "idle"}
        /\ fxRet = "EffectExecutionError" <=> fxCmdFailed
        /\ (fxPc = "idle" /\ ~fxCmdFailed) => fxRet = "ok"

\* C15 witness: a segment fade step with a JSON client has ended normally
\* after its per-LED transmission raised and its fallback command succeeded.
C15_Witness ==
    /\ fxKind = "segment_fade"
    /\ json_client
    /\ fxPerLedFailed
    /\ fxSegment = 1
    /\ ~fxCmdFailed
    /\ fxPc = "idle"
    /\ fxRet = "ok"

\* ------------------------------------------------------------------------
\* WLEDConnectionManager: properties
\* ------------------------------------------------------------------------

\* the step completes a call of caller c that constructed a client, by
\* storing that client in the cache
CachesNew(c) ==
    /\ cmPc[c] = "probe" /\ cmPc'[c] = "idle"
    /\ cmClient[c] \in Values(clients') \cup Values(json_clients')

\* C16: when a get_client call stores the client it constructed, no client
\* is cached under that host yet: for one uncached
\* host one client is constructed and cached, concurrent callers get that
\* one, and no cached client is dropped from the cache unclosed.
C16_OneClientPerHost ==
    [][\A c \in CMCallers :
          (CachesNew(c) /\ cmKind[c] = "wled") => cmHost[c] \notin Keys(clients)]_vars

\* C17: the number of cached clients never exceeds MAX_CACHED_CLIENTS.
C17_CacheBounded == client_count <= MAX_CACHED_CLIENTS

\* the cached hosts in the order of their last get_client use, oldest first
CachedByUse == SelectSeq(cmUseOrder, LAMBDA h : h \in Keys(clients))

\* the step is a get_client call that found its host cached
HitStep == cmPc' = cmPc /\ cmUseOrder' # cmUseOrder

\* C18: a get_client call for a cached host constructs and probes nothing
\* and moves that host's item, client unchanged, to the most recently used
\* end; a get_client call that evicts picks the cached host whose last
\* get_client use is oldest; and when the call stores its new client, the
\* evicted client's close() has been called and it is out of the cache.
C18_LeastRecentlyUsed ==
    [][/\ HitStep =>
              LET h == cmUseOrder'[Len(cmUseOrder')]
              IN  /\ h \in Keys(clients)
                  /\ clients' = Append(Remove(clients, h), Item(h, Lookup(clients, h)))
                  /\ cmNextId' = cmNextId
       /\ \A c \in CMCallers :
              (cmPc[c] = "idle" /\ cmPc'[c] = "evict_close" /\ cmKind'[c] = "wled") =>
                  /\ CachedByUse # << >>
                  /\ cmVictim'[c] = Head(CachedByUse)
                  /\ cmEvicted'[c] = Lookup(clients, Head(CachedByUse))
       /\ \A c \in CMCallers :
              (CachesNew(c) /\ cmKind[c] = "wled" /\ cmEvicted[c] # 0) =>
                  /\ cmCloses[cmEvicted[c]] >= 1
                  /\ cmEvicted[c] \notin Values(clients')
      ]_vars

\* C19: close_all() returns normally, whatever close() calls raised, with
\* both dicts empty, and by then close() has been called on every client
\* that was cached when close_all() was called.
C19_CloseAllTolerant ==
    [][/\ (caPc # "idle" /\ caPc' = "idle") =>
              /\ caRet' = "ok"
              /\ clients' = << >> /\ json_clients' = << >>
              /\ \A id \in caAtCall : id \in caAttempted \/ cmCloses[id] >= 1
       /\ (caPc = "idle" /\ caRet' # caRet /\ caPc' = "idle") =>
              /\ caRet' = "ok"
              /\ clients = << >> /\ json_clients = << >>
      ]_vars

\* the device commands the running render step has issued: each
\* send_wled_command awaits self.wled.segment() and each set_individual_leds
\* awaits self.json_client.set_individual_leds() directly
CommandsIssued == fxPerLed + fxSegment

\* C20: every device command of an effect has been admitted by a
\* RateLimiter.acquire() and runs inside a CircuitBreaker.call(): the
\* commands issued are never more than the acquire() calls that returned
\* successfully, nor more than the functions the breaker invoked.
C20_CommandsGuarded ==
    /\ CommandsIssued <= Len(rlLog)
    /\ CommandsIssued <= cbInvoked

\* ------------------------------------------------------------------------
\* Render loop at command granularity: properties
\* ------------------------------------------------------------------------

\* the step delivers stop()'s cancellation to a task suspended inside a
\* render step: in its in-flight command or in its tick sleep
CancelInStep == frCancel /\ ~frCancel' /\ frPc \in {"command", "tick"}

C22_StartResets ==
    [][(~frRunning /\ frRunning') =>
          /\ fr_last_error' = None
          /\ fr_command_count' = 0
          /\ fr_success_count' = 0
          /\ fr_failure_count' = 0]_vars

\* the step is a start() invoked on a running effect or a stop() invoked on
\* an effect that is not running
RedundantCall ==
    /\ frCalls' = frCalls + 1
    /\ \/ frLastCall' = "start" /\ frRunning
       \/ frLastCall' = "stop" /\ ~frRunning

\* C34: success_count + failure_count never exceeds command_count, so the
\* success rate successes / commands is at most 100%.
C34_CountersBounded ==
    fr_success_count + fr_failure_count <= fr_command_count

\* EffectCoordinator._get_state: "error" as long as the effect holds a last
\* error, else "running" or "stopped" by the running flag
GetState ==
    IF fr_last_error # None THEN "error"
    ELSE IF frRunning THEN "running"
    ELSE "stopped"

\* C35: while the running flag is true and the loop task is rendering or
\* between frames, the coordinator reports "running", also after failed
\* frames.
C35_RunningReported ==
    (frRunning /\ frPc \in {"command", "tick", "backoff"}) => GetState = "running"

\* C23: start() on a running effect and stop() on an effect that is not
\* running create and cancel no task and leave the running flag, the start
\* time, the last error and the counters as they are; a second stop() in a
\* row therefore changes nothing.
C23_RedundantCallsNoop ==
    [][RedundantCall =>
          UNCHANGED << frRunning, frPc, frCancel, frStopping, fr_start_time,
                       fr_last_error, fr_command_count, fr_success_count,
                       fr_failure_count >>]_vars

\* C23 witness: start() was invoked again on a running effect whose loop
\* had recorded a failed command, and the effect is still running with its
\* error, counters and start time in place.
C23_Witness ==
    /\ frCalls = 2
    /\ frLastCall = "start"
    /\ frRunning
    /\ frPc = "backoff"
    /\ fr_last_error # None
    /\ fr_failure_count = 2
    /\ fr_start_time = "set"

\* ------------------------------------------------------------------------
\* set_state: properties
\* ------------------------------------------------------------------------

\* a brightness that is present and not an integer in 0..255
BrightnessMalformed(state) ==
    /\ state.bri # Absent
    /\ ~(state.bri.type \in {"int", "bool"} /\ state.bri.val \in 0..255)

\* a segment array that is present and not a list of dicts whose ids, where
\* given, are integers
SegmentsMalformed(state) ==
    /\ state.seg # NoSeg
    /\ ~(/\ state.seg.type = "list"
         /\ \A i \in 1..Len(state.seg.items) :
                /\ state.seg.items[i].type = "dict"
                /\ state.seg.items[i].id.type \in {"absent", "int", "bool"})

C25_DetectionFallback ==
    [][(cfPc = "detecting" /\ cfPc' # "detecting" /\ cfDetected' \in FailedDetections) =>
          /\ start_led' = 0
          /\ stop_led' = 59
          /\ cfSetupRet' = "True"]_vars

\* C25 witness: an effect configured with a start index only has been set
\* up while the device query raised, and has the range 0..59.
C25_Witness ==
    /\ cfDetected = "raises"
    /\ cfPc = "ready"
    /\ cfSetupRet = "True"
    /\ cfUpdateRet = None
    /\ start_led = 0
    /\ stop_led = 59

\* C26: whenever both LED indexes are present start_led <= stop_led, and
\* segment_id is within 0..31.
C26_ConfigInvariant ==
    /\ (start_led # NoLed /\ stop_led # NoLed) => start_led <= stop_led
    /\ segment_id \in 0..31

\* ------------------------------------------------------------------------
\* Chase effect: properties
\* ------------------------------------------------------------------------

\* the step is the one in which a render step moves the position
ChaseMoveStep == chPc = "sending" /\ chPc' = "sleep"

\* C27: with bounce, a render step leaves the position within
\* 0..led_count-1, and the direction changes only in a render step that
\* leaves the position at 0 with direction 1 or at led_count-1 with
\* direction -1.
C27_BounceInRange ==
    [][bounce =>
          /\ ChaseMoveStep => position' \in 0..(chLedCount - 1)
          /\ direction' # direction =>
                /\ ChaseMoveStep
                /\ \/ position' = 0 /\ direction' = 1
                   \/ position' = chLedCount - 1 /\ direction' = -1]_vars

\* C27 witness: a bouncing chase over four LEDs has reached the far end and
\* turned around.
C27_Witness ==
    /\ bounce
    /\ chLedCount = 4
    /\ chPc = "sleep"
    /\ position = 3
    /\ direction = -1

\* ------------------------------------------------------------------------
\* Sparkle effect: properties
\* ------------------------------------------------------------------------

AllZero(values) == \A i \in DOMAIN values : values[i] = Zero

\* the number of fades after which rate^k is below 0.01, counted from the
\* fraction n / d = rate^k
RECURSIVE FadesUntilBelow(_, _, _)
FadesUntilBelow(n, d, rate) ==
    IF 100 * n < d THEN 0 ELSE 1 + FadesUntilBelow(n * rate[1], d * rate[2], rate)

\* the number of render steps that take 1.0 to 0.0
FadeBound(rate) == 1 + FadesUntilBelow(rate[1], rate[2], rate)

\* C28: with density 0 and a fade rate below 1 no brightness value grows in
\* a step, every value after a render step is 0.0 or at least 0.01, after
\* FadeBound(fade_rate) render steps all values are 0.0, and an all-zero
\* array stays all-zero.
C28_FadesOut ==
    [][(spPc # "none" /\ density = 0) =>
          /\ \A i \in DOMAIN led_brightness :
                /\ ~Less(led_brightness[i], led_brightness'[i])
                /\ led_brightness'[i] = Zero \/ ~Less(led_brightness'[i], Epsilon)
          /\ spSteps' >= FadeBound(fade_rate) => AllZero(led_brightness')
          /\ AllZero(led_brightness) => AllZero(led_brightness')]_vars

\* C28 witness: with density 0 and fade rate 2/3 an array that held 2/3 is
\* all-zero after eleven render steps.
C28_Witness ==
    /\ density = 0
    /\ fade_rate = << 2, 3 >>
    /\ spPc = "idle"
    /\ Len(spStart) > 0
    /\ spStart[1] = << 2, 3 >>
    /\ spSteps = 11
    /\ AllZero(led_brightness)

\* ------------------------------------------------------------------------
\* Alert effect: properties
\* ------------------------------------------------------------------------

\* C29: with max_duration > 0 the max-duration rule turns the segment off
\* only when more than max_duration seconds have passed since the effect
\* was started, and after that off command the effect sends no device
\* command until it is started again.
C29_MaxDurationStops ==
    (max_duration > 0 /\ alOffAt # NoTime) =>
        /\ alOffAt - alStarted > max_duration
        /\ alAfterOff = 0

\* ------------------------------------------------------------------------
\* DataMapper: properties
\* ------------------------------------------------------------------------

\* map_to_int(50) has returned on the mapper from 0..100 to 0..255, linear
\* and clamping
ScenarioCalled ==
    /\ dmPc = "called"
    /\ input_min = 0 /\ input_max = 100
    /\ output_min = 0 /\ output_max = 255
    /\ clamp /\ curve = "linear"
    /\ dmValue = 50

\* C30 as stated: map_to_int of 50 from 0..100 to 0..255, linear and
\* clamping, is 127.
C30_MapToInt127 == ScenarioCalled => dmResult = 127

\* C30, amended: map_to_int of 50 from 0..100 to 0..255, linear and
\* clamping, is 128: map() gives 127.5 and round() takes the tie to the even
\* integer.
C30_MapToInt128 == ScenarioCalled => dmResult = 128

\* C30 witness: the scenario's call has returned, from a map() value of
\* exactly 127.5.
C30_Witness ==
    /\ ScenarioCalled
    /\ Map(dmValue) = << 12750, 100 >>

\* ------------------------------------------------------------------------
\* Reverse direction: properties
\* ------------------------------------------------------------------------

\* C31: the frame a render step transmits per LED is the generated pattern
\* with reverse_direction disabled and its element-wise reversal with
\* reverse_direction enabled, for every effect class.
C31_ReverseLast ==
    rvPc = "sent" =>
        rvSent = (IF reverse_direction THEN Reversed(rvFrame) ELSE rvFrame)

\* ------------------------------------------------------------------------
\* map_value with smoothing: properties
\* ------------------------------------------------------------------------

\* a returned value lies between the ends of the output range of its call
InOutputRange(call) ==
    LET x == call[1]
        range == call[2]
        scale == x[2] \div Unit
        low == IF range[1] < range[2] THEN range[1] ELSE range[2]
        high == IF range[1] < range[2] THEN range[2] ELSE range[1]
    IN  low * scale <= x[1] /\ x[1] <= high * scale

\* C36: every value map_value returns with smooth=True for an input inside
\* the input range lies within the output range passed to that call, also
\* when one render step smooths two parameters with different output ranges.
C36_SmoothedInRange ==
    \A i \in 1..Len(smReturns) : InOutputRange(smReturns[i])

\* ------------------------------------------------------------------------
\* TriggerManager time triggers: properties
\* ------------------------------------------------------------------------

\* C38: after setup() with two or more time triggers with valid patterns,
\* every one of them is watched: once the clock has passed the start of the
\* minute of a trigger's pattern (and setup() ran before that minute began),
\* the callbacks of that trigger have been invoked for that minute.
C38_EveryTimeTriggerWatched ==
    \A i \in 1..Len(time_triggers) :
        (/\ ttPc = "setup"
         /\ ValidPattern(time_triggers[i])
         /\ ttSetupAt <= 2 * time_triggers[i]
         /\ ttNow > 2 * time_triggers[i]) =>
            time_triggers[i] \in ttFired[i]

\* ------------------------------------------------------------------------
\* TriggerManager threshold trigger: properties
\* ------------------------------------------------------------------------

\* the numeric events among those delivered
NumericEvents == SelectSeq(thEvents, LAMBDA e : e.kind = "number")

\* the transitions of the comparison from not satisfied to satisfied over the
\* numeric events, the comparison counting as not satisfied before the first
RisingEdges ==
    LET events == NumericEvents
    IN  Cardinality({i \in 1..Len(events) :
            /\ Triggered(events[i].val)
            /\ (i = 1 \/ ~Triggered(events[i - 1].val))})

\* C37: the callbacks of a threshold trigger have fired exactly once for each
\* transition of the comparison from not satisfied to satisfied in the events
\* delivered, events with a non-numeric value neither firing nor changing the
\* remembered status.
C37_EdgeTriggered ==
    thSetup => thFires = RisingEdges

\* ------------------------------------------------------------------------
\* SegmentFadeEffect: properties
\* ------------------------------------------------------------------------

\* a render step of the segment fade
SegmentFadeStep == sfPc = "idle" /\ sfPc' = "sending"

\* C39: in auto-cycling mode (steps >= 1) every render step leaves
\* current_step in [0, steps], moves it by exactly 1 in the direction held,
\* and sets the direction to -1 exactly when the step reaches steps and to +1
\* exactly when it reaches 0; when a state source controls the position a
\* render step changes neither current_step nor the direction.
C39_PingPong ==
    [][SegmentFadeStep =>
          IF StateControlsPosition
          THEN current_step' = current_step /\ sfDirection' = sfDirection
          ELSE /\ current_step' \in 0..steps
               /\ current_step' = current_step + sfDirection
               /\ sfDirection' = (IF current_step' = steps THEN -1
                                  ELSE IF current_step' = 0 THEN 1
                                  ELSE sfDirection)]_vars

\* a full ping-pong: 2 * steps auto-cycling render steps with steps >= 2 are
\* back at 0 with direction +1
C39_Witness ==
    /\ steps >= 2
    /\ sfAdvances = 2 * steps
    /\ current_step = 0
    /\ sfDirection = 1
    /\ sfPc = "sending"

====
